---- MODULE Spec2Model ----
(***************************************************************************)
(* SPARSE album ranker: the run of AlbumRanker (drain of the three tier    *)
(* playlists, propagation of every track into the album store,             *)
(* consolidation, cross-tier dedup, restoration, report), the sorter       *)
(* process that reads the report while the run goes on, and a second run   *)
(* after an aborted one (SpecRerun).                                       *)
(*                                                                         *)
(* Scores are halves of a point in the source (0, 0.5, 1, 2, ...); the     *)
(* model counts them in half points, so 0.5 is 1, 1 is 2 and so on.        *)
(***************************************************************************)
EXTENDS Integers, Sequences, FiniteSets, TLC

(* ------------------------------------------------------------------ *)
(* Bounds                                                              *)
(* ------------------------------------------------------------------ *)

\* Number of entries the three tier playlists hold together at the start.
MaxEntries == 3

\* The fetched metadata of an album lists up to MaxAlbumTracks tracks.
MaxAlbumTracks == 5

\* The configs handed to validate differ from the valid ones in up to MaxChanged keys.
MaxChanged == 2

\* The genre-playlists file names up to MaxGenres genres.
MaxGenres == 3

\* __consolidateAlbums is called on stores of up to MaxSightings recorded entries.
MaxSightings == 3

\* One track is saved up to MaxSaves times.
MaxSaves == 4

\* Track durations go up to MaxQuarterMinutes quarters of a minute.
MaxQuarterMinutes == 50

(* ------------------------------------------------------------------ *)
(* The remote catalogue: what the Spotify API answers                  *)
(* ------------------------------------------------------------------ *)

TrackIds == {"trk1", "trk2", "trk3", "trk4", "trk5"}

\* The album object embedded in a track (track["album"]).
StandardAlbum ==
    [uri |-> "alb_std", name |-> "Blue", artists |-> <<[name |-> "Ann"]>>,
     release_date |-> <<"2", "0", "0", "1", "-", "0", "3">>]

DeluxeAlbum ==
    [uri |-> "alb_dlx", name |-> "Blue (Deluxe)", artists |-> <<[name |-> "Ann"]>>,
     release_date |-> <<" ", "2", "0", "0", "2">>]

OtherAlbum ==
    [uri |-> "alb_red", name |-> "Red", artists |-> <<[name |-> "Bob"]>>,
     release_date |-> <<"2", "0", "0", "1">>]

SingleAlbum ==
    [uri |-> "alb_sgl", name |-> "A", artists |-> <<[name |-> "Ann"]>>,
     release_date |-> <<"2", "0", "0", "0">>]

ReissueAlbum ==
    [uri |-> "alb_rei", name |-> "A (Reissue)", artists |-> <<[name |-> "Ann"]>>,
     release_date |-> <<"2", "0", "1", "0">>]

\* playlist entry["track"] for a track URI.
SpotifyTrack(uri) ==
    CASE uri = "trk1" -> [uri |-> uri, name |-> "A", duration_ms |-> 370000, album |-> StandardAlbum]
      [] uri = "trk2" -> [uri |-> uri, name |-> "D", duration_ms |-> 300000, album |-> OtherAlbum]
      [] uri = "trk3" -> [uri |-> uri, name |-> "C", duration_ms |-> 200000, album |-> DeluxeAlbum]
      [] uri = "trk4" -> [uri |-> uri, name |-> "A", duration_ms |-> 200000, album |-> DeluxeAlbum]
      [] uri = "trk5" -> [uri |-> uri, name |-> "B", duration_ms |-> 200000, album |-> DeluxeAlbum]
      [] uri = "trk6" -> [uri |-> uri, name |-> "A", duration_ms |-> 200000, album |-> SingleAlbum]
      [] uri = "trk7" -> [uri |-> uri, name |-> "A", duration_ms |-> 200000, album |-> ReissueAlbum]

\* SpotifyClient.getAlbum: the enriched album, album["tracks"]["items"].
getAlbum(album_id) ==
    CASE album_id \in {"alb_sgl", "alb_rei"} ->
            [tracks |-> [items |-> <<[name |-> "A", duration_ms |-> 200000]>>]]
      [] album_id = "alb_std" ->
           [tracks |-> [items |-> <<[name |-> "A", duration_ms |-> 370000],
                                    [name |-> "B", duration_ms |-> 60000]>>]]
      [] album_id = "alb_red" ->
           [tracks |-> [items |-> <<[name |-> "D", duration_ms |-> 300000]>>]]
      [] OTHER ->
           [tracks |-> [items |-> <<[name |-> "A", duration_ms |-> 200000],
                                    [name |-> "B", duration_ms |-> 200000],
                                    [name |-> "C", duration_ms |-> 200000]>>]]

(* ------------------------------------------------------------------ *)
(* Configuration (SparseConfigs)                                       *)
(* ------------------------------------------------------------------ *)

get_album_length_threshold_min == 5

get_tier_3_yearly_threshold == 1

\* The override file: album key -> override values.
ranker_overrides ==
    [k \in {"Ann - Blue (Deluxe)"} |-> [year |-> 1999, name |-> "Blue"]]

\* utilities.get(data, key): the value, or None when the key is missing. None is
\* the record without fields: like None it is falsy and holds no key.
None == [k \in {} |-> 0]

get_ranker_override_by_album_key(album_key) ==
    IF album_key \in DOMAIN ranker_overrides THEN ranker_overrides[album_key] ELSE None

(* ------------------------------------------------------------------ *)
(* Pure helpers (spotify_utilities, utilities)                         *)
(* ------------------------------------------------------------------ *)

Tiers == {1, 2, 3}

is_valid_tier(t) == 3 >= t /\ t >= 1

\* A call either returns a value or raises: [raised |-> "", value |-> v] or
\* [raised |-> <exception name>].
Return(v) == [raised |-> "", value |-> v]

Raise(e) == [raised |-> e]

TierException == "SparsePlaylistTierException"

\* get_track_key: "<name>_<tier>". The tier is one digit, so the string is
\* decided by, and decides, the pair (name, tier): the key is kept as the pair.
get_track_key(name, t) ==
    IF name = "" THEN Raise(TierException)
    ELSE IF ~is_valid_tier(t) THEN Raise(TierException)
    ELSE Return(<<name, t>>)

get_tier_key(t) ==
    IF ~is_valid_tier(t) THEN Raise(TierException)
    ELSE Return("tier_" \o ToString(t) \o "_tracks")

TierKeys == {get_tier_key(t).value : t \in Tiers}

\* Faulty variant: a track of exactly 6 minutes scores as a longer one.
get_track_score_from_6_minutes(spotify_track) ==
    LET d == spotify_track.duration_ms IN
    IF d < 15000 THEN 0
    ELSE IF d < 90000 THEN 1
    ELSE IF d >= 360000 THEN 2 * ((d \div 360000) + 1)
    ELSE 2

\* get_track_score, in half points. duration_ms/1000/60 compared with .25, 1.5
\* and 6 minutes is duration_ms compared with 15000, 90000 and 360000 ms.
get_track_score(spotify_track) ==
    LET d == spotify_track.duration_ms IN
    IF d < 15000 THEN 0
    ELSE IF d < 90000 THEN 1
    ELSE IF d > 360000 THEN 2 * ((d \div 360000) + 1)
    ELSE 2

RECURSIVE SumScores(_)
SumScores(spotify_album_tracks) ==
    IF spotify_album_tracks = << >> THEN 0
    ELSE get_track_score(Head(spotify_album_tracks)) + SumScores(Tail(spotify_album_tracks))

\* Faulty variant: the score of one tier only.
get_album_highest_possible_score_single_tier(spotify_album_tracks) ==
    SumScores(spotify_album_tracks)

get_album_highest_possible_score(spotify_album_tracks) ==
    SumScores(spotify_album_tracks) * 3

get_track_name(spotify_track) == spotify_track.name

get_track_names(spotify_album_tracks) ==
    [n \in DOMAIN spotify_album_tracks |-> get_track_name(spotify_album_tracks[n])]

get_tracks(spotify_album) == spotify_album.tracks.items

get_artist_name(spotify_artist) == spotify_artist.name

RECURSIVE JoinNames(_)
JoinNames(names) ==
    IF names = << >> THEN ""
    ELSE IF Len(names) = 1 THEN names[1]
    ELSE names[1] \o ", " \o JoinNames(Tail(names))

get_album_artist_names(spotify_album) ==
    JoinNames([n \in DOMAIN spotify_album.artists |-> get_artist_name(spotify_album.artists[n])])

get_album_key(artist_names, album_name) == artist_names \o " - " \o album_name

\* extract_year_from_date: int(date.lstrip()[:4]).
DigitValue(c) ==
    CASE c = "0" -> 0 [] c = "1" -> 1 [] c = "2" -> 2 [] c = "3" -> 3 [] c = "4" -> 4
      [] c = "5" -> 5 [] c = "6" -> 6 [] c = "7" -> 7 [] c = "8" -> 8 [] c = "9" -> 9
      [] OTHER -> -1

RECURSIVE LStrip(_)
LStrip(s) == IF s # << >> /\ Head(s) = " " THEN LStrip(Tail(s)) ELSE s

RECURSIVE RStrip(_)
RStrip(s) == IF s # << >> /\ s[Len(s)] = " " THEN RStrip(SubSeq(s, 1, Len(s) - 1)) ELSE s

RECURSIVE DigitsValue(_)
DigitsValue(s) ==
    IF s = << >> THEN 0
    ELSE IF s[Len(s)] = "_" THEN DigitsValue(SubSeq(s, 1, Len(s) - 1))
    ELSE DigitsValue(SubSeq(s, 1, Len(s) - 1)) * 10 + DigitValue(s[Len(s)])

ValueError == "ValueError"

\* Python's int(): surrounding blanks, one optional sign, digits with single
\* underscores between them.
ParseInt(s) ==
    LET t == RStrip(LStrip(s))
        signed == t # << >> /\ Head(t) \in {"+", "-"}
        body == IF signed THEN Tail(t) ELSE t
        wellFormed ==
            /\ body # << >>
            /\ \A n \in DOMAIN body : DigitValue(body[n]) >= 0 \/ body[n] = "_"
            /\ body[1] # "_" /\ body[Len(body)] # "_"
            /\ \A n \in 1..(Len(body) - 1) : ~(body[n] = "_" /\ body[n + 1] = "_")
    IN  IF ~wellFormed THEN Raise(ValueError)
        ELSE IF signed /\ Head(t) = "-" THEN Return(0 - DigitsValue(body))
        ELSE Return(DigitsValue(body))

extract_year_from_date(date) ==
    LET stripped == LStrip(date)
    IN  ParseInt(SubSeq(stripped, 1, IF Len(stripped) < 4 THEN Len(stripped) ELSE 4))

Range(s) == {s[n] : n \in DOMAIN s}

RECURSIVE SumOver(_, _)
SumOver(f, S) ==
    IF S = {} THEN 0
    ELSE LET x == CHOOSE y \in S : TRUE IN f[x] + SumOver(f, S \ {x})

\* dict[key] = value
Put(d, key, value) == [k \in DOMAIN d \cup {key} |-> IF k = key THEN value ELSE d[k]]

\* Faulty variant: on a key of both, the value of d is kept.
UpdateKeepsOwn(d, other) ==
    [k \in DOMAIN d \cup DOMAIN other |-> IF k \in DOMAIN d THEN d[k] ELSE other[k]]

\* dict.update(other): the values of other win.
Update(d, other) ==
    [k \in DOMAIN d \cup DOMAIN other |-> IF k \in DOMAIN other THEN other[k] ELSE d[k]]

\* del dict[key] for every key of a set
Without(d, keys) == [k \in DOMAIN d \ keys |-> d[k]]

(* ------------------------------------------------------------------ *)
(* The album store (AlbumRanker)                                       *)
(* ------------------------------------------------------------------ *)

getAlbumKeyGivenArtists(artists, album) == get_album_key(artists, album.name)

\* Faulty variant: the deluxe edition is stored under the title of the standard one.
getEmptyAlbumWithoutEdition(track, artist_names, enriched_album) ==
    LET album == track.album
        album_tracks == get_tracks(enriched_album)
        year == extract_year_from_date(album.release_date)
    IN  IF year.raised # "" THEN Raise(year.raised)
        ELSE Return([artists |-> artist_names,
                     name |-> IF album.name = DeluxeAlbum.name THEN StandardAlbum.name
                              ELSE album.name,
                     highest_possible_score |-> get_album_highest_possible_score(album_tracks),
                     year |-> year.value,
                     duration_ms |-> 0,
                     album_track_names |-> get_track_names(album_tracks),
                     playlist_placements |-> << >>,
                     best_tracks |-> {}])

\* __getEmptyAlbum, given the answer of getAlbum.
getEmptyAlbum(track, artist_names, enriched_album) ==
    LET album == track.album
        album_tracks == get_tracks(enriched_album)
        year == extract_year_from_date(album.release_date)
    IN  IF year.raised # "" THEN Raise(year.raised)
        ELSE Return([artists |-> artist_names,
                     name |-> album.name,
                     highest_possible_score |-> get_album_highest_possible_score(album_tracks),
                     year |-> year.value,
                     duration_ms |-> 0,
                     album_track_names |-> get_track_names(album_tracks),
                     playlist_placements |-> << >>,
                     best_tracks |-> {}])

\* Line 141: "if (tier_key not in tier_tracks[tier_key])". What is looked up in
\* the tier's track set is the tier key, not the track ID.
\* Variant: the track ID is looked up, as the comment of line 140 has it.
NotYetCountedById(tier_key, track_id, tier_tracks) == track_id \notin tier_tracks[tier_key]

NotYetCounted(tier_key, track_id, tier_tracks) == tier_key \notin tier_tracks[tier_key]

\* Faulty variant: the track is placed at the given tier only, nothing is propagated down.
addTieredTrackNoPropagation(t, album_key, duration_ms, memory, tier_tracks, name, score, track_id) ==
    LET key == get_track_key(name, t)
        tier_key == get_tier_key(t).value
    IN  [raised |-> "",
         memory |-> [memory EXCEPT
             ![album_key].playlist_placements = Put(@, key.value, score),
             ![album_key].best_tracks = IF t = 3 THEN @ \cup {track_id} ELSE @,
             ![album_key].duration_ms = IF t = 1 THEN @ + duration_ms ELSE @],
         tier_tracks |-> [tier_tracks EXCEPT ![tier_key] = @ \cup {track_id}]]

\* Faulty variant: the track enters the track set of the given tier only.
addTieredTrackOneTierSet(t, album_key, duration_ms, memory, tier_tracks, name, score, track_id) ==
    [raised |-> "",
     memory |-> [memory EXCEPT
         ![album_key].playlist_placements =
             Update(@, [k \in {<<name, n>> : n \in 1..t} |-> score]),
         ![album_key].best_tracks = IF t = 3 THEN @ \cup {track_id} ELSE @,
         ![album_key].duration_ms = @ + duration_ms],
     tier_tracks |-> [tier_tracks EXCEPT ![get_tier_key(t).value] = @ \cup {track_id}]]

\* Faulty variant: a tier outside 1..3 is clamped into the range, a missing name
\* is taken as it is.
addTieredTrackClamped(t, album_key, duration_ms, memory, tier_tracks, name, score, track_id) ==
    LET top == IF t > 3 THEN 3 ELSE IF t < 1 THEN 1 ELSE t
        placements == [k \in {<<name, n>> : n \in 1..top} |-> score]
    IN  [raised |-> "",
         memory |-> [memory EXCEPT
             ![album_key].playlist_placements = Update(@, placements),
             ![album_key].best_tracks = IF top = 3 THEN @ \cup {track_id} ELSE @,
             ![album_key].duration_ms = @ + duration_ms],
         tier_tracks |-> [k \in DOMAIN tier_tracks |->
             IF \E n \in 1..top : k = get_tier_key(n).value
             THEN tier_tracks[k] \cup {track_id} ELSE tier_tracks[k]]]

\* __addTieredTrackToMemory. The result is [raised, memory, tier_tracks]: what
\* the call leaves in memory and tier_tracks, and the exception it ends with.
RECURSIVE addTieredTrackToMemory(_, _, _, _, _, _, _, _)
addTieredTrackToMemory(t, album_key, duration_ms, memory, tier_tracks, name, score, track_id) ==
    LET key == get_track_key(name, t) IN
    IF key.raised # ""
    THEN [raised |-> key.raised, memory |-> memory, tier_tracks |-> tier_tracks]
    ELSE
      LET placed == [memory EXCEPT ![album_key].playlist_placements = Put(@, key.value, score)]
          tier_key == get_tier_key(t).value
          fresh == NotYetCounted(tier_key, track_id, tier_tracks)
          tracks1 == IF fresh THEN [tier_tracks EXCEPT ![tier_key] = @ \cup {track_id}]
                     ELSE tier_tracks
          memory1 == IF fresh /\ t = 3
                     THEN [placed EXCEPT ![album_key].best_tracks = @ \cup {track_id}]
                     ELSE IF fresh /\ t = 1
                     THEN [placed EXCEPT ![album_key].duration_ms = @ + duration_ms]
                     ELSE placed
      IN  IF fresh /\ t = 1
          THEN [raised |-> "", memory |-> memory1, tier_tracks |-> tracks1]
          ELSE addTieredTrackToMemory(t - 1, album_key, duration_ms, memory1, tracks1,
                                      name, score, track_id)

\* Faulty variant: a track that has a placement in the album is not saved again.
saveTrackDataFirstOnly(track, t, album_key, memory, tier_tracks) ==
    IF \E key \in DOMAIN memory[album_key].playlist_placements : key[1] = track.name
    THEN [raised |-> "", memory |-> memory, tier_tracks |-> tier_tracks]
    ELSE addTieredTrackToMemory(t, album_key, track.duration_ms, memory, tier_tracks,
                                track.name, get_track_score(track), track.uri)

\* __saveTrackData
saveTrackData(track, t, album_key, memory, tier_tracks) ==
    addTieredTrackToMemory(t, album_key, track.duration_ms, memory, tier_tracks,
                           get_track_name(track), get_track_score(track), track.uri)

(* ------------------------------------------------------------------ *)
(* Consolidation                                                       *)
(* ------------------------------------------------------------------ *)

isSubset(subsetAlbum, supersetAlbum) ==
    \A track \in Range(subsetAlbum.album_track_names) :
        track \in Range(supersetAlbum.album_track_names)

\* Faulty variant: only albums of the same artists, name and year are consolidated.
needsConsolidationSameIdentityOnly(smallerAlbum, largerAlbum) ==
    /\ smallerAlbum.artists = largerAlbum.artists
    /\ smallerAlbum.name = largerAlbum.name
    /\ smallerAlbum.year = largerAlbum.year

needsConsolidation(smallerAlbum, largerAlbum) ==
    LET names_match == /\ smallerAlbum.artists = largerAlbum.artists
                       /\ smallerAlbum.name = largerAlbum.name
                       /\ smallerAlbum.year = largerAlbum.year
    IN  names_match \/ isSubset(smallerAlbum, largerAlbum)

\* Faulty variant: an album of the same highest possible score qualifies too.
RECURSIVE FirstMatchNotSmaller(_, _, _, _)
FirstMatchNotSmaller(l, album_keys, n, memory) ==
    IF n > Len(album_keys) THEN 0
    ELSE IF /\ memory[l].highest_possible_score <= memory[album_keys[n]].highest_possible_score
            /\ needsConsolidation(memory[l], memory[album_keys[n]])
    THEN n
    ELSE FirstMatchNotSmaller(l, album_keys, n + 1, memory)

\* The inner loop of the merge pass: the first r, in the order of the store,
\* that l is merged into (0 when there is none).
RECURSIVE FirstMatch(_, _, _, _)
FirstMatch(l, album_keys, n, memory) ==
    IF n > Len(album_keys) THEN 0
    ELSE IF /\ memory[l].highest_possible_score < memory[album_keys[n]].highest_possible_score
            /\ needsConsolidation(memory[l], memory[album_keys[n]])
    THEN n
    ELSE FirstMatch(l, album_keys, n + 1, memory)

\* Faulty variant: the duration of the merged album is added to the target's.
RECURSIVE MergePassAddsDuration(_, _, _, _)
MergePassAddsDuration(album_keys, n, memory, keys_to_delete) ==
    IF n > Len(album_keys) THEN [memory |-> memory, keys_to_delete |-> keys_to_delete]
    ELSE
      LET l == album_keys[n]
          m == FirstMatch(l, album_keys, 1, memory)
      IN  IF m = 0 THEN MergePassAddsDuration(album_keys, n + 1, memory, keys_to_delete)
          ELSE
            LET r == album_keys[m]
                merged == [memory EXCEPT
                    ![r].playlist_placements = Update(@, memory[l].playlist_placements),
                    ![r].best_tracks = @ \cup memory[l].best_tracks,
                    ![r].duration_ms = @ + memory[l].duration_ms]
            IN  MergePassAddsDuration(album_keys, n + 1, merged, keys_to_delete \cup {l})

\* The outer loop of the merge pass, from the n-th key on.
RECURSIVE MergePass(_, _, _, _)
MergePass(album_keys, n, memory, keys_to_delete) ==
    IF n > Len(album_keys) THEN [memory |-> memory, keys_to_delete |-> keys_to_delete]
    ELSE
      LET l == album_keys[n]
          m == FirstMatch(l, album_keys, 1, memory)
      IN  IF m = 0 THEN MergePass(album_keys, n + 1, memory, keys_to_delete)
          ELSE
            LET r == album_keys[m]
                merged == [memory EXCEPT
                    ![r].playlist_placements = Update(@, memory[l].playlist_placements),
                    ![r].best_tracks = @ \cup memory[l].best_tracks]
            IN  MergePass(album_keys, n + 1, merged, keys_to_delete \cup {l})

SelectSeq2(s, keep) == SelectSeq(s, LAMBDA k : k \in keep)

\* Faulty variant: only the year of the override is applied.
ApplyOverrideYearOnly(album, override) ==
    IF DOMAIN override = {} THEN album
    ELSE [album EXCEPT !.year = IF "year" \in DOMAIN override THEN override["year"] ELSE @]

\* The override of one album (lines 341-350).
ApplyOverride(album, override) ==
    IF DOMAIN override = {} THEN album
    ELSE [album EXCEPT
        !.highest_possible_score =
            IF "highest_possible_score" \in DOMAIN override
            THEN override["highest_possible_score"] ELSE @,
        !.year = IF "year" \in DOMAIN override THEN override["year"] ELSE @,
        !.name = IF "name" \in DOMAIN override THEN override["name"] ELSE @,
        !.artists = IF "artists" \in DOMAIN override THEN override["artists"] ELSE @]

\* Faulty variant: an album exactly as long as the threshold is too short as well.
TooShortOrEqual(album) == album.duration_ms <= get_album_length_threshold_min * 60 * 1000

TooShort(album) == album.duration_ms < get_album_length_threshold_min * 60 * 1000

\* __consolidateAlbums: [memory, album_keys] afterwards.
consolidateAlbums(memory, album_keys) ==
    LET pass == MergePass(album_keys, 1, memory, {})
        kept == DOMAIN memory \ pass.keys_to_delete
        merged == Without(pass.memory, pass.keys_to_delete)
        short == {key \in kept : TooShort(merged[key])}
        overridden == [key \in kept |->
            IF key \in short THEN merged[key]
            ELSE ApplyOverride(merged[key], get_ranker_override_by_album_key(key))]
    IN  [memory |-> Without(overridden, short),
         album_keys |-> SelectSeq2(album_keys, kept \ short)]

\* Faulty variant: no cross-tier dedup.
executeTierTrackDiffNone(tier_tracks) == tier_tracks

\* Faulty variant: the difference is taken the wrong way round, tier 3 loses what tier 2 holds.
executeTierTrackDiffReversed(tier_tracks) ==
    LET k2 == get_tier_key(2).value
        k3 == get_tier_key(3).value
    IN  [tier_tracks EXCEPT ![k3] = @ \ tier_tracks[k2]]

\* Faulty variant: tier 1 loses what tier 3 holds, not what tier 2 holds.
executeTierTrackDiffForgetsTier2(tier_tracks) ==
    LET k1 == get_tier_key(1).value
        k2 == get_tier_key(2).value
        k3 == get_tier_key(3).value
        diff2 == [tier_tracks EXCEPT ![k2] = @ \ tier_tracks[k3]]
    IN  [diff2 EXCEPT ![k1] = @ \ diff2[k3]]

\* __executeTierTrackDiff
executeTierTrackDiff(tier_tracks) ==
    LET k1 == get_tier_key(1).value
        k2 == get_tier_key(2).value
        k3 == get_tier_key(3).value
        diff2 == [tier_tracks EXCEPT ![k2] = @ \ tier_tracks[k3]]
    IN  [diff2 EXCEPT ![k1] = @ \ (diff2[k3] \cup diff2[k2])]

\* Faulty variant: the total is the sum of the tier-1 placements alone.
getOutputRowFromAlbumTier1Only(album) ==
    [artists |-> album.artists,
     name |-> album.name,
     year |-> album.year,
     total_score |-> SumOver(album.playlist_placements,
                             {key \in DOMAIN album.playlist_placements : key[2] = 1}),
     highest_score |-> album.highest_possible_score,
     best_songs |-> album.best_tracks]

\* __getOutputRowFromAlbum
getOutputRowFromAlbum(album) ==
    [artists |-> album.artists,
     name |-> album.name,
     year |-> album.year,
     total_score |-> SumOver(album.playlist_placements, DOMAIN album.playlist_placements),
     highest_score |-> album.highest_possible_score,
     best_songs |-> album.best_tracks]

(* ------------------------------------------------------------------ *)
(* State                                                               *)
(* ------------------------------------------------------------------ *)

VARIABLES
    playlist,          \* remote: tier -> track ID -> number of entries in the tier playlist
    memory,            \* album key -> Album
    album_keys,        \* the keys of memory in insertion order (memory.keys())
    tier_tracks,       \* tier key -> set of track IDs
    pc,                \* the statement of run() that comes next
    raised,            \* the exception that ended the run ("" while none did)
    tier,              \* the tier argument of the __executeTier / __addTracksToPlaylist at hand
    playlist_tracks,   \* the page being recorded
    pos,               \* position of the for loop in playlist_tracks
    tracks_to_delete,
    output_file,       \* content of the report file
    warnings,          \* years a warning was logged for
    playlist0,         \* history: the playlists at the start of the run
    handed,            \* history: tier -> track ID -> times handed to __saveTrackData
    finished,          \* history: the statements of run() that have completed
    df,                \* the sorter process: the report AlbumSorter.refresh_df read last
    origin,            \* history: the playlists before the first run
    call               \* a helper function called on its own: arguments and outcome

vars == <<playlist, memory, album_keys, tier_tracks, pc, raised, tier, playlist_tracks, pos,
          tracks_to_delete, output_file, warnings, playlist0, handed, finished, df, origin, call>>

Slots == Tiers \X TrackIds

\* Every content of the three playlists with at most MaxEntries entries in all;
\* a playlist may hold a track more than once.
InitialPlaylists ==
    {[t \in Tiers |-> [id \in TrackIds |->
          Cardinality({n \in DOMAIN s : s[n] = <<t, id>>})]] :
        s \in UNION {[1..n -> Slots] : n \in 0..MaxEntries}}

\* The report the previous run left.
OUTPUT_FILE_COLUMN_NAMES ==
    "Artists,Album Name,Year,Total Score,Highest Possible Score,Tier 3 Tracks"

PreviousReport ==
    [header |-> OUTPUT_FILE_COLUMN_NAMES,
     rows |-> <<[artists |-> "Old", name |-> "Older", year |-> 1990, total_score |-> 2,
                 highest_score |-> 6, best_songs |-> {}]>>]

\* pd.read_csv: the first line names the columns, the lines after it are the
\* rows of the data frame.
read_csv(file) == file.rows

\* No helper function is called on its own during a run.
NoCall == [fn |-> "none"]

\* The state in which run() starts on the playlists entries (lines 483-488).
RunStarts(entries) ==
    /\ playlist = entries
    /\ playlist0 = entries
    /\ memory = << >>
    /\ album_keys = << >>
    /\ tier_tracks = [k \in TierKeys |-> {}]
    /\ pc = "getPlaylistItems"
    /\ raised = ""
    /\ tier = 3
    /\ playlist_tracks = << >>
    /\ pos = 0
    /\ tracks_to_delete = << >>
    /\ output_file = PreviousReport
    /\ warnings = {}
    /\ handed = [t \in Tiers |-> [id \in TrackIds |-> 0]]
    /\ finished = {}
    /\ df = read_csv(PreviousReport)
    /\ origin = entries

Init ==
    /\ \E entries \in InitialPlaylists : RunStarts(entries)
    /\ call = NoCall

(* ------------------------------------------------------------------ *)
(* The remote playlist                                                 *)
(* ------------------------------------------------------------------ *)

Entries(entries) == SumOver(entries, TrackIds)

\* Faulty variant: a fetch may return nothing although the playlist holds entries.
PagesOrNothing(entries) ==
    {<< >>} \cup
    {s \in UNION {[1..n -> {id \in TrackIds : entries[id] > 0}] : n \in 1..Entries(entries)} :
        \A id \in TrackIds : Cardinality({n \in DOMAIN s : s[n] = id}) <= entries[id]}

\* What one fetch of a playlist may return: nothing when the playlist is empty,
\* otherwise some of its entries, at least one, in any order.
Pages(entries) ==
    IF Entries(entries) = 0 THEN {<< >>}
    ELSE {s \in UNION {[1..n -> {id \in TrackIds : entries[id] > 0}] : n \in 1..Entries(entries)} :
            \A id \in TrackIds : Cardinality({n \in DOMAIN s : s[n] = id}) <= entries[id]}

\* Faulty variant: the whole playlist is cleared, not the batch alone.
removePlaylistItemsClearsAll(entries, tracks) == [id \in TrackIds |-> 0]

\* playlist_remove_all_occurrences_of_items
removePlaylistItems(entries, tracks) ==
    [id \in TrackIds |-> IF id \in Range(tracks) THEN 0 ELSE entries[id]]

\* playlist_add_items, one entry per track ID of the set
addPlaylistItems(entries, tracks) ==
    [id \in TrackIds |-> IF id \in tracks THEN entries[id] + 1 ELSE entries[id]]

(* ------------------------------------------------------------------ *)
(* run()                                                               *)
(* ------------------------------------------------------------------ *)

\* Faulty variant: the report is written before the tracks are added back.
AfterStatementReportFirst(statement) ==
    CASE statement = "executeAllTiers" -> "consolidateAlbums"
      [] statement = "consolidateAlbums" -> "executeTierTrackDiff"
      [] statement = "executeTierTrackDiff" -> "writeAlbumRankerResults"
      [] statement = "writeAlbumRankerResults" -> "addPlaylistItems"
      [] statement = "addTracksBackToTierPlaylists" -> "done"

\* run(), lines 491-503: the statement that follows a statement of run().
AfterStatement(statement) ==
    CASE statement = "executeAllTiers" -> "consolidateAlbums"
      [] statement = "consolidateAlbums" -> "executeTierTrackDiff"
      [] statement = "executeTierTrackDiff" -> "addPlaylistItems"
      [] statement = "addTracksBackToTierPlaylists" -> "writeAlbumRankerResults"
      [] statement = "writeAlbumRankerResults" -> "done"

\* Faulty variant: consolidation follows the drain of tier 2, tier 1 is never executed.
AfterTierSkipsLast(t) ==
    IF t > 2 THEN [pc |-> "getPlaylistItems", tier |-> t - 1]
    ELSE [pc |-> AfterStatement("executeAllTiers"), tier |-> 0]

\* __executeAllTiers: what follows the drain of tier t.
AfterTier(t) ==
    IF t > 1 THEN [pc |-> "getPlaylistItems", tier |-> t - 1]
    ELSE [pc |-> AfterStatement("executeAllTiers"), tier |-> 0]

\* Faulty variant: the tier-1 tracks are not added back.
AfterAddBackSkipsLast(t) ==
    IF t > 2 THEN [pc |-> "addPlaylistItems", tier |-> t - 1]
    ELSE [pc |-> AfterStatement("addTracksBackToTierPlaylists"), tier |-> 0]

\* __addTracksBackToTierPlaylists: what follows the restoration of tier t.
AfterAddBack(t) ==
    IF t > 1 THEN [pc |-> "addPlaylistItems", tier |-> t - 1]
    ELSE [pc |-> AfterStatement("addTracksBackToTierPlaylists"), tier |-> 0]

ExecuteTierOf(t) == "executeTier" \o ToString(t)

AddTracksOf(t) == "addTracksToPlaylist" \o ToString(t)

\* __executeTier, lines 240 and 274: fetch a page; an empty page ends the tier.
GetPlaylistItems ==
    /\ pc = "getPlaylistItems" /\ raised = ""
    /\ \E page \in Pages(playlist[tier]) :
        IF Len(page) # 0
        THEN /\ playlist_tracks' = page
             /\ pos' = 1
             /\ tracks_to_delete' = << >>
             /\ pc' = "record"
             /\ tier' = tier
             /\ finished' = finished
        ELSE /\ playlist_tracks' = << >>
             /\ pos' = 0
             /\ tracks_to_delete' = << >>
             /\ pc' = AfterTier(tier).pc
             /\ tier' = AfterTier(tier).tier
             /\ finished' = finished \cup {ExecuteTierOf(tier)}
    /\ UNCHANGED <<raised, playlist, memory, album_keys, tier_tracks, output_file, warnings,
                   playlist0, handed>>
    /\ UNCHANGED <<df, origin, call>>

\* __executeTier, lines 246-268: one turn of the for loop over the page.
RecordTrack ==
    /\ pc = "record" /\ raised = ""
    /\ LET unwrapped_track == SpotifyTrack(playlist_tracks[pos])
           album == unwrapped_track.album
           artists == get_album_artist_names(album)
           album_key == getAlbumKeyGivenArtists(artists, album)
           known == album_key \in DOMAIN memory
           new_album == getEmptyAlbum(unwrapped_track, artists, getAlbum(album.uri))
       IN  IF ~known /\ new_album.raised # ""
           THEN /\ raised' = new_album.raised
                /\ UNCHANGED <<memory, album_keys, tier_tracks, tracks_to_delete, pos,
                               handed, pc>>
           ELSE
             LET memory1 == IF known THEN memory ELSE Put(memory, album_key, new_album.value)
                 saved == saveTrackData(unwrapped_track, tier, album_key, memory1, tier_tracks)
             IN  /\ memory' = saved.memory
                 /\ album_keys' = IF known THEN album_keys ELSE Append(album_keys, album_key)
                 /\ tier_tracks' = saved.tier_tracks
                 /\ handed' = [handed EXCEPT ![tier][unwrapped_track.uri] = @ + 1]
                 /\ raised' = saved.raised
                 /\ IF saved.raised # ""
                    THEN UNCHANGED <<tracks_to_delete, pos, pc>>
                    ELSE /\ tracks_to_delete' = Append(tracks_to_delete, unwrapped_track.uri)
                         /\ pos' = pos + 1
                         /\ pc' = IF pos = Len(playlist_tracks)
                                  THEN "removePlaylistItems" ELSE "record"
    /\ UNCHANGED <<playlist, tier, playlist_tracks, output_file, warnings, playlist0,
                   finished>>
    /\ UNCHANGED <<df, origin, call>>

\* __executeTier, line 271: remove the batch from the playlist.
RemovePlaylistItems ==
    /\ pc = "removePlaylistItems" /\ raised = ""
    /\ playlist' = [playlist EXCEPT ![tier] = removePlaylistItems(@, tracks_to_delete)]
    /\ pc' = "getPlaylistItems"
    /\ UNCHANGED <<finished, raised, memory, album_keys, tier_tracks, tier, playlist_tracks, pos,
                   tracks_to_delete, output_file, warnings, playlist0, handed, finished>>
    /\ UNCHANGED <<df, origin, call>>

\* run(), line 494
ConsolidateAlbums ==
    /\ pc = "consolidateAlbums" /\ raised = ""
    /\ LET done == consolidateAlbums(memory, album_keys)
       IN  /\ memory' = done.memory
           /\ album_keys' = done.album_keys
    /\ pc' = AfterStatement("consolidateAlbums")
    /\ finished' = finished \cup {"consolidateAlbums"}
    /\ UNCHANGED <<raised, playlist, tier_tracks, tier, playlist_tracks, pos, tracks_to_delete,
                   output_file, warnings, playlist0, handed>>
    /\ UNCHANGED <<df, origin, call>>

\* run(), line 497
ExecuteTierTrackDiff ==
    /\ pc = "executeTierTrackDiff" /\ raised = ""
    /\ tier_tracks' = executeTierTrackDiff(tier_tracks)
    /\ pc' = AfterStatement("executeTierTrackDiff")
    /\ tier' = 3
    /\ finished' = finished \cup {"executeTierTrackDiff"}
    /\ UNCHANGED <<raised, playlist, memory, album_keys, playlist_tracks, pos, tracks_to_delete,
                   output_file, warnings, playlist0, handed>>
    /\ UNCHANGED <<df, origin, call>>

\* __addTracksBackToTierPlaylists: one __addTracksToPlaylist.
AddTracksToPlaylist ==
    /\ pc = "addPlaylistItems" /\ raised = ""
    /\ playlist' = [playlist EXCEPT
           ![tier] = addPlaylistItems(@, tier_tracks[get_tier_key(tier).value])]
    /\ pc' = AfterAddBack(tier).pc
    /\ tier' = AfterAddBack(tier).tier
    /\ finished' = finished \cup {AddTracksOf(tier)}
    /\ UNCHANGED <<raised, memory, album_keys, tier_tracks, playlist_tracks, pos, tracks_to_delete,
                   output_file, warnings, playlist0, handed>>
    /\ UNCHANGED <<df, origin, call>>

\* The years a warning is logged for (lines 407-421).
YearWarnings(mem) ==
    LET year_counts(y) == Cardinality({key \in DOMAIN mem : mem[key].year = y})
    IN  {y \in {mem[key].year : key \in DOMAIN mem} :
            year_counts(y) > get_tier_3_yearly_threshold}

\* __writeAlbumRankerResults, lines 403-404: open(mode='w') empties the report
\* file, the column names are written and the file is closed.
WriteColumnNames ==
    /\ pc = "writeAlbumRankerResults" /\ raised = ""
    /\ output_file' = [header |-> OUTPUT_FILE_COLUMN_NAMES, rows |-> << >>]
    /\ pc' = "writeRows"
    /\ UNCHANGED <<raised, playlist, memory, album_keys, tier_tracks, tier, playlist_tracks, pos,
                   tracks_to_delete, warnings, playlist0, handed, finished, df, origin, call>>

\* __writeAlbumRankerResults, lines 407-421: open(mode='a'), one row per album
\* in the order of the store, the file is closed, the warnings are logged.
WriteAlbumRows ==
    /\ pc = "writeRows" /\ raised = ""
    /\ output_file' = [output_file EXCEPT
           !.rows = @ \o [n \in DOMAIN album_keys |-> getOutputRowFromAlbum(memory[album_keys[n]])]]
    /\ warnings' = YearWarnings(memory)
    /\ pc' = AfterStatement("writeAlbumRankerResults")
    /\ finished' = finished \cup {"writeAlbumRankerResults"}
    /\ UNCHANGED <<raised, playlist, memory, album_keys, tier_tracks, tier, playlist_tracks, pos,
                   tracks_to_delete, playlist0, handed, df, origin, call>>

\* A remote call exhausts its retries (__run_with_retry re-raises): the run ends.
RemoteException == "Exception"

RemoteCallFails ==
    /\ raised = ""
    /\ \/ pc \in {"getPlaylistItems", "removePlaylistItems", "addPlaylistItems"}
       \/ /\ pc = "record"
          /\ getAlbumKeyGivenArtists(
                 get_album_artist_names(SpotifyTrack(playlist_tracks[pos]).album),
                 SpotifyTrack(playlist_tracks[pos]).album) \notin DOMAIN memory
    /\ raised' = RemoteException
    /\ UNCHANGED <<finished, playlist, memory, album_keys, tier_tracks, pc, tier, playlist_tracks, pos,
                   tracks_to_delete, output_file, warnings, playlist0, handed, finished>>
    /\ UNCHANGED <<df, origin, call>>

\* An entry of the page lacks a field the loop reads (lines 248-268): the
\* lookup raises and the run ends.
ReturnDataException == "SparseReturnDataException"

KeyError == "KeyError"

\* The fields read while an entry is recorded, in the order of their lookups:
\* those of the entry, of the album as the entry holds it, of the album as
\* getAlbum answers it ("enriched") and of the track.
CreationFields ==
    {"album.uri", "enriched.tracks", "enriched.duration_ms", "album.release_date",
     "enriched.name"}

SaveFields == {"track.name", "track.duration_ms", "track.uri"}

EntryFields ==
    {"entry.track", "track.album", "album.artists", "artist.name", "album.name"}
        \cup CreationFields \cup SaveFields

\* What the lookup of a missing field raises: the helpers of spotify_utilities
\* turn the KeyError into a SparseReturnDataException, a subscript in
\* album_ranker.py (lines 69, 84, 85, 92, 185, 248, 249) raises the KeyError.
LookupError(field) ==
    IF field \in {"entry.track", "track.album", "album.name", "album.uri",
                  "album.release_date", "track.uri"}
    THEN KeyError ELSE ReturnDataException

MalformedEntry ==
    /\ pc = "record" /\ raised = ""
    /\ \E field \in EntryFields :
         LET unwrapped_track == SpotifyTrack(playlist_tracks[pos])
             album == unwrapped_track.album
             artists == get_album_artist_names(album)
             album_key == getAlbumKeyGivenArtists(artists, album)
             known == album_key \in DOMAIN memory
             new_album == getEmptyAlbum(unwrapped_track, artists, getAlbum(album.uri))
             created == field \in SaveFields /\ ~known /\ new_album.raised = ""
         IN  /\ field \in CreationFields => ~known
             /\ raised' = IF field \in SaveFields /\ ~known /\ new_album.raised # ""
                           THEN new_album.raised ELSE LookupError(field)
             /\ memory' = IF created THEN Put(memory, album_key, new_album.value) ELSE memory
             /\ album_keys' = IF created THEN Append(album_keys, album_key) ELSE album_keys
    /\ UNCHANGED <<playlist, tier_tracks, pc, tier, playlist_tracks, pos,
                   tracks_to_delete, output_file, warnings, playlist0, handed, finished, df,
                   origin, call>>

\* AlbumSorter.refresh_df, in the sorter process, at any moment of the run.
RefreshDf ==
    /\ df' = read_csv(output_file)
    /\ UNCHANGED <<playlist, memory, album_keys, tier_tracks, pc, raised, tier, playlist_tracks,
                   pos, tracks_to_delete, output_file, warnings, playlist0, handed, finished,
                   origin, call>>

Next ==
    \/ GetPlaylistItems
    \/ RecordTrack
    \/ RemovePlaylistItems
    \/ ConsolidateAlbums
    \/ ExecuteTierTrackDiff
    \/ AddTracksToPlaylist
    \/ WriteColumnNames
    \/ WriteAlbumRows
    \/ RemoteCallFails
    \/ MalformedEntry
    \/ RefreshDf

Spec == Init /\ [][Next]_vars

\* The steps of run() but the turn of the for loop, when no remote call fails
\* and no entry is malformed.
RankerStep ==
    \/ GetPlaylistItems
    \/ RemovePlaylistItems
    \/ ConsolidateAlbums
    \/ ExecuteTierTrackDiff
    \/ AddTracksToPlaylist
    \/ WriteColumnNames
    \/ WriteAlbumRows

NextNoFailure == RankerStep \/ RecordTrack \/ RefreshDf

\* WF_vars(RecordTrack) written out: a turn of the for loop can be taken, and
\* changes the state, exactly when pc = "record" and nothing was raised.
RecordTrackFair ==
    \/ []<>~(pc = "record" /\ raised = "")
    \/ []<><<RecordTrack>>_vars

\* The run without failures; the ranker process is not halted for ever while
\* it has a step to take.
SpecNoFailure ==
    Init /\ [][NextNoFailure]_vars /\ WF_vars(RankerStep) /\ RecordTrackFair

\* The operator starts run() again after the first run was aborted: memory and
\* tier_tracks are the fresh locals of lines 483-488, the playlists and the
\* report file are as the aborted run left them.
Rerun ==
    /\ raised # "" /\ origin = playlist0
    /\ playlist0' = playlist
    /\ memory' = << >>
    /\ album_keys' = << >>
    /\ tier_tracks' = [k \in TierKeys |-> {}]
    /\ pc' = "getPlaylistItems"
    /\ raised' = ""
    /\ tier' = 3
    /\ playlist_tracks' = << >>
    /\ pos' = 0
    /\ tracks_to_delete' = << >>
    /\ handed' = [t \in Tiers |-> [id \in TrackIds |-> 0]]
    /\ finished' = {}
    /\ UNCHANGED <<playlist, output_file, warnings, df, origin, call>>

NextOrRerun == Next \/ Rerun

SpecRerun == Init /\ [][NextOrRerun]_vars

(* ------------------------------------------------------------------ *)
(* Properties                                                          *)
(* ------------------------------------------------------------------ *)

TierSet(t) == tier_tracks[get_tier_key(t).value]

Collecting == pc \in {"getPlaylistItems", "record", "removePlaylistItems"}

\* The drain of tier t has ended with an empty page.
Drained(t) == ExecuteTierOf(t) \in finished

AlbumKeyOf(id) ==
    getAlbumKeyGivenArtists(get_album_artist_names(SpotifyTrack(id).album), SpotifyTrack(id).album)

InPlaylist(p, t, id) == p[t][id] > 0

StartTiers(id) == {t \in Tiers : InPlaylist(playlist0, t, id)}

HandedTiers(id) == {t \in Tiers : handed[t][id] > 0}

Highest(S) == CHOOSE t \in S : \A u \in S : u <= t

DurationOf == [id \in TrackIds |-> SpotifyTrack(id).duration_ms]

\* C1: in the drain of a tier playlist every track that was in the playlist at
\* the start is handed to the collector exactly once: never twice at any moment,
\* and once when the drain has ended.
C1_HandedExactlyOnce ==
    \A t \in Tiers : \A id \in TrackIds :
        /\ handed[t][id] <= 1
        /\ (Drained(t) /\ InPlaylist(playlist0, t, id)) => handed[t][id] = 1

\* Up to and including consolidation: cross-tier dedup, the first step of
\* restoration, has not run.
BeforeRestoration == "executeTierTrackDiff" \notin finished

\* C2: delete-after-record: until restoration, every track that was in tier
\* playlist T at the start is still in the remote playlist or is in tier_tracks[T],
\* also in the state an exception leaves.
C2_DeleteAfterRecord ==
    BeforeRestoration =>
        \A t \in Tiers : \A id \in TrackIds :
            InPlaylist(playlist0, t, id) => InPlaylist(playlist, t, id) \/ id \in TierSet(t)

\* A page that held part of the tier-3 playlist has been recorded and removed,
\* the rest of the playlist is still remote and not recorded.
C2_Witness ==
    /\ pc = "getPlaylistItems" /\ tier = 3
    /\ \E a, b \in TrackIds :
        /\ InPlaylist(playlist0, 3, a) /\ ~InPlaylist(playlist, 3, a) /\ a \in TierSet(3)
        /\ InPlaylist(playlist, 3, b) /\ b \notin TierSet(3)

\* C3: after a run without a failure every track that was in a tier playlist at
\* the start is in exactly one tier playlist, that of the highest tier it was in.
C3_HighestTierOnly ==
    (pc = "done") =>
        \A id \in TrackIds : StartTiers(id) # {} =>
            \A t \in Tiers : InPlaylist(playlist, t, id) <=> t = Highest(StartTiers(id))

\* A track that was in the tier-3 and the tier-2 playlist ends in tier 3 only.
C3_Witness ==
    /\ pc = "done"
    /\ \E id \in TrackIds :
        /\ InPlaylist(playlist0, 3, id) /\ InPlaylist(playlist0, 2, id)
        /\ InPlaylist(playlist, 3, id) /\ ~InPlaylist(playlist, 2, id)
        /\ ~InPlaylist(playlist, 1, id)

IdsIn(p) == {id \in TrackIds : \E t \in Tiers : InPlaylist(p, t, id)}

\* C4: after a run without a failure the track IDs of the three tier playlists
\* together are those of the start: none lost, none invented.
C4_RestoresExactly == (pc = "done") => IdsIn(playlist) = IdsIn(playlist0)

\* A finished run over playlists that held tracks of two tiers, one of them in
\* two playlists.
C4_Witness ==
    /\ pc = "done"
    /\ Cardinality(IdsIn(playlist0)) >= 2
    /\ \E id \in TrackIds : Cardinality(StartTiers(id)) >= 2
    /\ \E id \in TrackIds : StartTiers(id) = {1}

\* C5: propagation is idempotent: saving a track that was already saved at the
\* same or a higher tier leaves placements, bestTracks, durationMs (memory) and
\* the tier track sets as they were.
C5_Idempotent ==
    [][(/\ pc = "record"
        /\ handed' # handed
        /\ raised' = ""
        /\ \E t \in Tiers : t >= tier /\ handed[t][playlist_tracks[pos]] > 0)
       => (memory' = memory /\ tier_tracks' = tier_tracks)]_vars

\* The tracks of an album handed to the collector so far.
HandedOf(key) == {id \in TrackIds : AlbumKeyOf(id) = key /\ HandedTiers(id) # {}}

\* C6: during collection an album's durationMs is the sum of the durations of
\* its tracks found so far, each counted once however often it was found.
C6_DurationOnce ==
    "consolidateAlbums" \notin finished =>
        \A key \in DOMAIN memory :
            memory[key].duration_ms = SumOver(DurationOf, HandedOf(key))

\* The placement keys a track found at highest tier T stands for: T down to 1.
KeysOf(id) == {<<SpotifyTrack(id).name, u>> : u \in 1..Highest(HandedTiers(id))}

\* C7: during collection the placement keys of an album are exactly, for each of
\* its tracks found so far, the tiers from the highest tier it was found in down
\* to 1, each with the track's score: nothing above the highest sighting. In
\* every state, consolidation included, a key <name>_<t> is held only if a track
\* of that name was found in a tier >= t.
C7_PlacementsDownward ==
    /\ ("consolidateAlbums" \notin finished /\ raised = "") =>
          \A key \in DOMAIN memory :
            /\ DOMAIN memory[key].playlist_placements = UNION {KeysOf(id) : id \in HandedOf(key)}
            /\ \A id \in HandedOf(key) : \A k \in KeysOf(id) :
                   memory[key].playlist_placements[k] = get_track_score(SpotifyTrack(id))
    /\ \A key \in DOMAIN memory : \A k \in DOMAIN memory[key].playlist_placements :
          \E id \in TrackIds : \E t \in HandedTiers(id) :
              SpotifyTrack(id).name = k[1] /\ t >= k[2]

\* A track found in tier 2 and not in tier 3 has its _2 and _1 keys and no _3 key.
C7_Witness ==
    /\ "consolidateAlbums" \notin finished
    /\ \E id \in TrackIds :
        /\ handed[2][id] > 0 /\ handed[3][id] = 0
        /\ AlbumKeyOf(id) \in DOMAIN memory
        /\ {k \in DOMAIN memory[AlbumKeyOf(id)].playlist_placements : k[1] = SpotifyTrack(id).name}
               = {<<SpotifyTrack(id).name, 2>>, <<SpotifyTrack(id).name, 1>>}

\* The found tracks whose _1 key an album holds: its own, and those of an album
\* merged into it.
WithTier1Key(key) ==
    {id \in TrackIds :
        /\ HandedTiers(id) # {}
        /\ <<SpotifyTrack(id).name, 1>> \in DOMAIN memory[key].playlist_placements
        /\ AlbumKeyOf(id) = key \/ AlbumKeyOf(id) \notin DOMAIN memory}

\* C8: in every state, for every album of the store, durationMs is the sum of
\* the durations of the tracks that have a _1 key in the album, each once.
C8_DurationIsTier1Sum ==
    \A key \in DOMAIN memory :
        memory[key].duration_ms = SumOver(DurationOf, WithTier1Key(key))

\* C9: in every state every track ID in the bestTracks of an album is in the
\* tier-3 track set, after consolidation and cross-tier dedup too.
C9_BestTracksInTier3 ==
    \A key \in DOMAIN memory : memory[key].best_tracks \subseteq TierSet(3)

\* After the dedup an album holds a best track it got from an album merged into it.
C9_Witness ==
    /\ "executeTierTrackDiff" \in finished
    /\ \E key \in DOMAIN memory : \E id \in memory[key].best_tracks : AlbumKeyOf(id) # key

Empty(t) == \A id \in TrackIds : playlist[t][id] = 0

Drains == {ExecuteTierOf(t) : t \in Tiers}

AddBacks == {AddTracksOf(t) : t \in Tiers}

\* C10: a run is sequential: tier 3 is drained before the first fetch of tier 2,
\* tier 2 before the first fetch of tier 1, consolidation starts after the three
\* drains, nothing is added back before the drains and consolidation have
\* finished, and the report is written last.
C10_Sequential ==
    /\ (Collecting /\ tier = 2) => (Drained(3) /\ Empty(3))
    /\ (Collecting /\ tier = 1) => (Drained(3) /\ Drained(2) /\ Empty(3) /\ Empty(2))
    /\ (pc = "consolidateAlbums" \/ "consolidateAlbums" \in finished) =>
           (Drains \subseteq finished)
    /\ pc = "consolidateAlbums" => \A t \in Tiers : Empty(t)
    /\ (finished \cap AddBacks = {}) =>
           \A t \in Tiers : \A id \in TrackIds : playlist[t][id] <= playlist0[t][id]
    /\ (finished \cap AddBacks # {} \/ pc = "addPlaylistItems") =>
           (Drains \cup {"consolidateAlbums"}) \subseteq finished
    /\ (output_file # PreviousReport \/ "writeAlbumRankerResults" \in finished) =>
           /\ (Drains \cup AddBacks \cup {"consolidateAlbums", "executeTierTrackDiff"})
                  \subseteq finished
           /\ pc \in {"writeRows", "done"}
    /\ "writeAlbumRankerResults" \in finished => pc = "done"

\* A finished run that drained entries from all three playlists.
C10_Witness ==
    /\ pc = "done"
    /\ \A t \in Tiers : \E id \in TrackIds : handed[t][id] > 0
    /\ output_file # PreviousReport

(* ------------------------------------------------------------------ *)
(* Consolidation                                                       *)
(* ------------------------------------------------------------------ *)

\* The step of run() that is the call of __consolidateAlbums.
ConsolidationStep == pc = "consolidateAlbums" /\ pc' # pc

\* Album l of the store is to be merged into album r of the store: r has the
\* strictly greater highest possible score, and the two have the same artists,
\* name and year or every track name of l is a track name of r.
Absorbs(mem, l, r) ==
    /\ l # r
    /\ mem[l].highest_possible_score < mem[r].highest_possible_score
    /\ \/ /\ mem[l].artists = mem[r].artists
          /\ mem[l].name = mem[r].name
          /\ mem[l].year = mem[r].year
       \/ \A n \in DOMAIN mem[l].album_track_names :
              \E k \in DOMAIN mem[r].album_track_names :
                  mem[l].album_track_names[n] = mem[r].album_track_names[k]

\* Album r of store after holds the placements and the best tracks of l and r of
\* store before, and no others.
HoldsUnion(before, after, l, r) ==
    /\ DOMAIN after[r].playlist_placements =
           DOMAIN before[l].playlist_placements \cup DOMAIN before[r].playlist_placements
    /\ after[r].best_tracks = before[l].best_tracks \cup before[r].best_tracks

\* The albums tracks were handed to the collector for.
HandedAlbums == {AlbumKeyOf(id) : id \in {i \in TrackIds : HandedTiers(i) # {}}}

SharedKeys(mem, l, r) ==
    DOMAIN mem[l].playlist_placements \cap DOMAIN mem[r].playlist_placements

\* l is the one album of the store that is merged into r.
OnlyMergedInto(mem, l, r) ==
    /\ Absorbs(mem, l, r)
    /\ \A other \in DOMAIN mem : Absorbs(mem, other, r) => other = l

\* C12 as stated: when album L is merged into R and both hold a placement
\* under the same key, R holds afterwards the value R held before the merge.
C12_TargetValueKept ==
    [][ConsolidationStep =>
        \A l \in DOMAIN memory : \A r \in DOMAIN memory :
            (OnlyMergedInto(memory, l, r) /\ r \in DOMAIN memory') =>
                \A key \in SharedKeys(memory, l, r) :
                    memory'[r].playlist_placements[key] = memory[r].playlist_placements[key]]_vars

\* C12, amended: when album L is merged into R and both hold a placement under
\* the same key, R holds afterwards the value L held before the merge; a key of
\* R alone keeps R's value.
C12_MergedValueKept ==
    [][ConsolidationStep =>
        \A l \in DOMAIN memory : \A r \in DOMAIN memory :
            (OnlyMergedInto(memory, l, r) /\ r \in DOMAIN memory') =>
                /\ \A key \in DOMAIN memory[l].playlist_placements :
                       memory'[r].playlist_placements[key] = memory[l].playlist_placements[key]
                /\ \A key \in DOMAIN memory[r].playlist_placements \ SharedKeys(memory, l, r) :
                       memory'[r].playlist_placements[key] = memory[r].playlist_placements[key]]_vars

\* Consolidation has ended with an album in the store that was handed a track
\* and holds, under the key of that track, the score of another album's track
\* of the same name.
C12_Witness ==
    /\ "consolidateAlbums" \in finished
    /\ \E id \in TrackIds : \E other \in TrackIds :
           /\ AlbumKeyOf(id) \in DOMAIN memory
           /\ AlbumKeyOf(other) \notin DOMAIN memory
           /\ HandedTiers(id) # {} /\ HandedTiers(other) # {}
           /\ SpotifyTrack(id).name = SpotifyTrack(other).name
           /\ get_track_score(SpotifyTrack(id)) # get_track_score(SpotifyTrack(other))
           /\ memory[AlbumKeyOf(id)].playlist_placements[<<SpotifyTrack(id).name, 1>>] =
                  get_track_score(SpotifyTrack(other))

\* Album key of the store is merged into some other album of the store.
MergedAway(mem, key) == \E r \in DOMAIN mem : Absorbs(mem, key, r)

album_length_threshold_ms == get_album_length_threshold_min * 60 * 1000

\* C13: after consolidation no album shorter than the album length threshold
\* remains, with or without an override; the override leaves the duration as it
\* was; and an album at least as long as the threshold, equality included, is
\* not removed by the length filter: it is in the store afterwards unless it was
\* merged into another album.
C13_LengthFilter ==
    [][ConsolidationStep =>
        /\ \A key \in DOMAIN memory' :
               /\ memory'[key].duration_ms >= album_length_threshold_ms
               /\ key \in DOMAIN memory
               /\ memory'[key].duration_ms = memory[key].duration_ms
        /\ \A key \in DOMAIN memory :
               (memory[key].duration_ms >= album_length_threshold_ms
                    /\ ~MergedAway(memory, key)) => key \in DOMAIN memory'
        /\ \A key \in DOMAIN memory :
               memory[key].duration_ms < album_length_threshold_ms => key \notin DOMAIN memory']_vars

\* Consolidation has ended: an album with an override that was collected with
\* less than the threshold is gone, and an album exactly as long as the
\* threshold is in the store.
C13_Witness ==
    /\ "consolidateAlbums" \in finished
    /\ \E key \in HandedAlbums :
           /\ key \in DOMAIN ranker_overrides
           /\ key \notin DOMAIN memory
           /\ \A other \in HandedAlbums : other = key \/ other \in DOMAIN memory
    /\ \E key \in DOMAIN memory : memory[key].duration_ms = album_length_threshold_ms

\* The four fields an override may set.
OverrideFields == {"highest_possible_score", "year", "name", "artists"}

\* C14: for every album that survives consolidation, each of highest possible
\* score, year, name and artists has the value of the album's override when the
\* override holds it, and the collected value otherwise (so an album without
\* override keeps all four); duration and track names are as collected, and
\* placements and best tracks are as the merge pass left them.
C14_OverrideFrame ==
    [][ConsolidationStep =>
        \A key \in DOMAIN memory' :
            LET override == get_ranker_override_by_album_key(key)
                pass == MergePass(album_keys, 1, memory, {}).memory
            IN  /\ \A field \in OverrideFields :
                       memory'[key][field] =
                           IF field \in DOMAIN override THEN override[field]
                           ELSE memory[key][field]
                /\ memory'[key].duration_ms = memory[key].duration_ms
                /\ memory'[key].album_track_names = memory[key].album_track_names
                /\ memory'[key].playlist_placements = pass[key].playlist_placements
                /\ memory'[key].best_tracks = pass[key].best_tracks]_vars

\* Consolidation has ended with two albums in the store: one has an override
\* and carries its year and name, which differ from the collected ones, the
\* other has none.
C14_Witness ==
    /\ "consolidateAlbums" \in finished
    /\ \E key \in DOMAIN memory : \E id \in HandedOf(key) :
           /\ key \in DOMAIN ranker_overrides
           /\ memory[key].year = ranker_overrides[key].year
           /\ memory[key].name = ranker_overrides[key].name
           /\ memory[key].name # SpotifyTrack(id).album.name
           /\ memory[key].artists = get_album_artist_names(SpotifyTrack(id).album)
    /\ \E key \in DOMAIN memory : key \notin DOMAIN ranker_overrides

(* ------------------------------------------------------------------ *)
(* Cross-tier dedup                                                    *)
(* ------------------------------------------------------------------ *)

\* The step of run() that is the call of __executeTierTrackDiff.
DiffStep == pc = "executeTierTrackDiff" /\ pc' # pc

AllTierTracks == TierSet(3) \cup TierSet(2) \cup TierSet(1)

\* C15: cross-tier dedup leaves the three tier sets pairwise disjoint and drops
\* no track: tier 3 is unchanged, tier 2 holds no ID of tier 3 and tier 1 none
\* of tier 3 or tier 2, a set only loses what a higher set holds, the union is
\* the union before, and a track of tier 3 and tier 1 is in tier 3 only.
C15_DisjointNoLoss ==
    [][DiffStep =>
        /\ TierSet(3)' = TierSet(3)
        /\ TierSet(2)' = TierSet(2) \ TierSet(3)
        /\ TierSet(1)' = TierSet(1) \ (TierSet(3) \cup TierSet(2))
        /\ TierSet(2)' \cap TierSet(3)' = {}
        /\ TierSet(1)' \cap (TierSet(3)' \cup TierSet(2)') = {}
        /\ AllTierTracks' = AllTierTracks
        /\ \A id \in TierSet(3) \cap TierSet(1) :
               id \in TierSet(3)' /\ id \notin TierSet(2)' /\ id \notin TierSet(1)']_vars

\* Cross-tier dedup has ended: a track that was in the tier-3 and the tier-1
\* playlist is in the tier-3 set only, and the tier-2 set holds another track,
\* which is not in the tier-1 set.
C15_Witness ==
    /\ "executeTierTrackDiff" \in finished
    /\ \E id \in TrackIds :
           /\ handed[3][id] > 0 /\ handed[1][id] > 0
           /\ id \in TierSet(3) /\ id \notin TierSet(2) /\ id \notin TierSet(1)
    /\ \E id \in TierSet(2) : handed[2][id] > 0 /\ id \notin TierSet(1)

(* ------------------------------------------------------------------ *)
(* Report                                                              *)
(* ------------------------------------------------------------------ *)

\* The album as __getEmptyAlbum creates it at the first sighting of track id.
Collected(id) ==
    getEmptyAlbum(SpotifyTrack(id), get_album_artist_names(SpotifyTrack(id).album),
                  getAlbum(SpotifyTrack(id).album.uri)).value

\* Some track of another album was handed to the collector, and that album and
\* the album of track id are merged, the one into the other.
TakesPartInMerge(id) ==
    \E other \in TrackIds :
        /\ HandedTiers(other) # {}
        /\ AlbumKeyOf(other) # AlbumKeyOf(id)
        /\ LET mem == [key \in {AlbumKeyOf(id), AlbumKeyOf(other)} |->
                          IF key = AlbumKeyOf(id) THEN Collected(id) ELSE Collected(other)]
           IN  \/ Absorbs(mem, AlbumKeyOf(id), AlbumKeyOf(other))
               \/ Absorbs(mem, AlbumKeyOf(other), AlbumKeyOf(id))

\* The observed tracks of the album have pairwise distinct names.
DistinctNames(key) ==
    \A id \in HandedOf(key) : \A other \in HandedOf(key) :
        SpotifyTrack(id).name = SpotifyTrack(other).name => id = other

\* score(track) * highest tier the track was found in, in half points.
TrackTotal == [id \in TrackIds |->
    IF HandedTiers(id) = {} THEN 0
    ELSE get_track_score(SpotifyTrack(id)) * Highest(HandedTiers(id))]

\* C16: the report row of an album whose observed tracks have pairwise distinct
\* names and that takes part in no merge carries as total score the sum, over
\* the observed tracks, of the track's score times the highest tier the track
\* was found in.
C16_TotalScore ==
    pc = "done" =>
        \A n \in DOMAIN album_keys : \A id \in HandedOf(album_keys[n]) :
            (DistinctNames(album_keys[n]) /\ ~TakesPartInMerge(id)) =>
                output_file.rows[n].total_score = SumOver(TrackTotal, HandedOf(album_keys[n]))

\* The run has ended for an album of three tracks of 200000 ms, one found in
\* tier 3 alone, one in tier 2 alone, one in tier 1 alone: six placements, the
\* tier-3 track the one best track, 600000 ms, and a total of 6 points.
C16_Witness ==
    /\ pc = "done"
    /\ \E n \in DOMAIN album_keys : \E a \in TrackIds : \E b \in TrackIds : \E c \in TrackIds :
           LET album == memory[album_keys[n]]
           IN  /\ HandedOf(album_keys[n]) = {a, b, c}
               /\ HandedTiers(a) = {3} /\ HandedTiers(b) = {2} /\ HandedTiers(c) = {1}
               /\ handed[3][a] = 1 /\ handed[2][b] = 1 /\ handed[1][c] = 1
               /\ \A id \in {a, b, c} : DurationOf[id] = 200000
               /\ ~TakesPartInMerge(a)
               /\ DOMAIN album.playlist_placements =
                      {<<SpotifyTrack(a).name, 3>>, <<SpotifyTrack(a).name, 2>>,
                       <<SpotifyTrack(a).name, 1>>, <<SpotifyTrack(b).name, 2>>,
                       <<SpotifyTrack(b).name, 1>>, <<SpotifyTrack(c).name, 1>>}
               /\ album.best_tracks = {a}
               /\ album.duration_ms = 600000
               /\ output_file.rows[n].total_score = 2 * 6

\* C18: there is no partial report: the report file is touched only after the
\* three drains, consolidation, cross-tier dedup and the three restorations have
\* completed, and a run that a failed remote call or a malformed entry aborted
\* leaves the report file as it was.
C18_NoPartialReport ==
    /\ output_file # PreviousReport =>
           /\ (Drains \cup AddBacks \cup {"consolidateAlbums", "executeTierTrackDiff"})
                  \subseteq finished
           /\ raised = ""
    /\ pc \in {"writeRows", "done"} => raised = ""
    /\ raised # "" => output_file = PreviousReport

\* A run that was aborted in the restoration, after tracks were drained and
\* albums collected, with the report of the previous run still in the file.
C18_Witness ==
    /\ raised = RemoteException
    /\ pc = "addPlaylistItems"
    /\ AddTracksOf(3) \in finished
    /\ DOMAIN memory # {}
    /\ output_file = PreviousReport

(* ------------------------------------------------------------------ *)
(* A run after an aborted run                                          *)
(* ------------------------------------------------------------------ *)

\* C17: when a run has completed, every track that was in a tier playlist
\* before the first run is in a tier playlist again, also when the first run
\* was aborted after it had drained tracks and the completed run is the one
\* started after it.
C17_RerunRestores ==
    (pc = "done" /\ raised = "") => IdsIn(origin) \subseteq IdsIn(playlist)

(* ------------------------------------------------------------------ *)
(* The sorter process                                                  *)
(* ------------------------------------------------------------------ *)

\* C19: what the sorter has read is always a complete report: the report of
\* the previous run while the run is in progress, that one or the new report
\* once the run has completed; never an empty or partly written file.
C19_SorterSeesCompleteReport ==
    \/ df = read_csv(PreviousReport)
    \/ pc = "done" /\ df = read_csv(output_file)

\* The reported albums of year y that hold a tier-3 placement.
Tier3AlbumsOf(y) ==
    {key \in DOMAIN memory :
        /\ memory[key].year = y
        /\ \E placement \in DOMAIN memory[key].playlist_placements : placement[2] = 3}

\* C20: after the report is written, a warning has been logged for year y
\* exactly when more reported albums of year y than the yearly threshold hold
\* a tier-3 placement.
C20_WarningIffTier3Count ==
    pc = "done" =>
        warnings = {y \in {memory[key].year : key \in DOMAIN memory} :
                       Cardinality(Tier3AlbumsOf(y)) > get_tier_3_yearly_threshold}

\* C22: with fetches that return at least one entry of a playlist that holds
\* entries and deletions that remove every occurrence of the submitted IDs,
\* the drain of each tier playlist terminates, and from the end of the drain to
\* the restoration the playlist is empty.
C22_DrainTerminates ==
    /\ \A t \in Tiers : <>Drained(t)
    /\ [](\A t \in Tiers : (Drained(t) /\ finished \cap AddBacks = {}) => Empty(t))

\* The drain of a playlist that held three entries has ended after more than
\* one fetch of entries, and the playlist is empty.
C22_Witness ==
    \E t \in Tiers :
        /\ Drained(t) /\ Empty(t)
        /\ SumOver(playlist0[t], TrackIds) = MaxEntries
        /\ SumOver(handed[t], TrackIds) = MaxEntries
        /\ \E id \in TrackIds : playlist0[t][id] > 1

(* ------------------------------------------------------------------ *)
(* Helper functions called on their own                                *)
(* ------------------------------------------------------------------ *)

\* The run is not started: the playlists are empty and nothing is collected.
NoRun == RunStarts([t \in Tiers |-> [id \in TrackIds |-> 0]])

runVars == <<playlist, memory, album_keys, tier_tracks, pc, raised, tier, playlist_tracks, pos,
             tracks_to_delete, output_file, warnings, playlist0, handed, finished, df, origin>>

\* The outcome of a call that has not returned.
Pending == Raise("pending")

\* SpotifyClient.__run_with_retry, default arguments.
max_retries == 3

\* What one attempt of the remote function may do: return a value or raise.
AttemptOutcomes == {Return("first"), Return("second"), Raise("Timeout"), Raise("RateLimit")}

RetryCalls ==
    {[fn |-> "run_with_retry", outcomes |-> outcomes, attempt |-> 0, calls |-> 0,
      sleeps |-> 0, done |-> FALSE, out |-> Pending] :
        outcomes \in [1..max_retries -> AttemptOutcomes]}

\* Faulty variant: the first exception is raised at once, nothing is retried.
run_with_retry_once(c) ==
    [c EXCEPT !.calls = @ + 1, !.out = c.outcomes[c.attempt + 1], !.done = TRUE]

\* One turn of the for loop of __run_with_retry (lines 54-61): attempt is the
\* loop variable, calls counts the calls of func, sleeps those of time.sleep.
run_with_retry(c) ==
    LET outcome == c.outcomes[c.attempt + 1] IN
    IF outcome.raised = ""
    THEN [c EXCEPT !.calls = @ + 1, !.out = outcome, !.done = TRUE]
    ELSE IF c.attempt = max_retries - 1
    THEN [c EXCEPT !.calls = @ + 1, !.out = outcome, !.done = TRUE]
    ELSE [c EXCEPT !.calls = @ + 1, !.sleeps = @ + 1, !.attempt = @ + 1]

RunWithRetry ==
    /\ call.fn = "run_with_retry" /\ ~call.done
    /\ call' = run_with_retry(call)
    /\ UNCHANGED runVars

\* The durations get_track_score is called with: around every quarter of a
\* minute, and the durations of 0.249 and 6.01 minutes.
Durations ==
    {d \in {q * 15000 + o : q \in 0..MaxQuarterMinutes, o \in {-1, 0, 1}} : d >= 0}
        \cup {14940, 360600}

ScoreCalls ==
    {[fn |-> "get_track_score", spotify_track |-> track, done |-> FALSE, out |-> Pending] :
        track \in {[duration_ms |-> d] : d \in Durations} \cup {[name |-> "U-Love"]}}

\* Faulty variant: the KeyError of the lookup is let through.
call_get_track_score_unwrapped(spotify_track) ==
    IF "duration_ms" \in DOMAIN spotify_track
    THEN Return(get_track_score(spotify_track))
    ELSE Raise(KeyError)

\* get_track_score with its lookup of the duration (lines 93-97).
call_get_track_score(spotify_track) ==
    IF "duration_ms" \in DOMAIN spotify_track
    THEN Return(get_track_score(spotify_track))
    ELSE Raise(ReturnDataException)

GetTrackScore ==
    /\ call.fn = "get_track_score" /\ ~call.done
    /\ call' = [call EXCEPT !.out = call_get_track_score(call.spotify_track), !.done = TRUE]
    /\ UNCHANGED runVars

\* Album metadata as getAlbum may answer it: any list of tracks with the
\* durations of the mock tracks of the tests.
MetadataTracks ==
    {[name |-> "T", duration_ms |-> d] : d \in {13000, 60000, 274000, 482000, 0}}

EnrichedAlbums ==
    {[tracks |-> [items |-> items]] :
        items \in UNION {[1..n -> MetadataTracks] : n \in 0..MaxAlbumTracks}}

\* __getEmptyAlbum for a found track and the metadata fetched for its album.
EmptyAlbumCalls ==
    {[fn |-> "getEmptyAlbum", track |-> SpotifyTrack(id), enriched_album |-> album,
      done |-> FALSE, out |-> Pending] :
        id \in {"trk1", "trk2", "trk3"}, album \in EnrichedAlbums}

GetEmptyAlbum ==
    /\ call.fn = "getEmptyAlbum" /\ ~call.done
    /\ call' = [call EXCEPT
                   !.out = getEmptyAlbum(call.track, get_album_artist_names(call.track.album),
                                         call.enriched_album),
                   !.done = TRUE]
    /\ UNCHANGED runVars

\* The tiers the helpers are called with: those of the tests and 5.
TierInputs == {-100, -1, 0, 1, 2, 3, 4, 5, 100}

\* A name argument is <<name>>, or None for a missing name.
NameInputs == {None, <<"">>, <<"name1">>, <<"name2">>}

ValidTierCalls ==
    {[fn |-> "is_valid_tier", tier |-> t, done |-> FALSE, out |-> Pending] : t \in TierInputs}

IsValidTier ==
    /\ call.fn = "is_valid_tier" /\ ~call.done
    /\ call' = [call EXCEPT !.out = Return(is_valid_tier(call.tier)), !.done = TRUE]
    /\ UNCHANGED runVars

TrackKeyCalls ==
    {[fn |-> "get_track_key", name |-> name, tier |-> t, done |-> FALSE, out |-> Pending] :
        name \in NameInputs, t \in TierInputs}

\* get_track_key with a name that may be missing: "not name" holds of None as
\* of the empty string.
call_get_track_key(name, t) ==
    IF name = None THEN Raise(TierException) ELSE get_track_key(name[1], t)

GetTrackKey ==
    /\ call.fn = "get_track_key" /\ ~call.done
    /\ call' = [call EXCEPT !.out = call_get_track_key(call.name, call.tier), !.done = TRUE]
    /\ UNCHANGED runVars

TierKeyCalls ==
    {[fn |-> "get_tier_key", tier |-> t, done |-> FALSE, out |-> Pending] : t \in TierInputs}

GetTierKey ==
    /\ call.fn = "get_tier_key" /\ ~call.done
    /\ call' = [call EXCEPT !.out = get_tier_key(call.tier), !.done = TRUE]
    /\ UNCHANGED runVars

\* The stores __addTieredTrackToMemory is called on: the standard album as
\* __getEmptyAlbum creates it, as it is or after its track A was saved at a tier.
StandardAlbumKey ==
    getAlbumKeyGivenArtists(get_album_artist_names(StandardAlbum), StandardAlbum)

Stores ==
    LET track == SpotifyTrack("trk1")
        new_album == getEmptyAlbum(track, get_album_artist_names(track.album),
                                   getAlbum(track.album.uri))
        created == [memory |-> Put(<< >>, StandardAlbumKey, new_album.value),
                    tier_tracks |-> [k \in TierKeys |-> {}]]
    IN  {created} \cup
        {LET saved == saveTrackData(track, t, StandardAlbumKey, created.memory,
                                    created.tier_tracks)
         IN  [memory |-> saved.memory, tier_tracks |-> saved.tier_tracks] : t \in Tiers}

PropagationCalls ==
    {[fn |-> "addTieredTrackToMemory", tier |-> t, name |-> track[1], track_id |-> track[2],
      memory |-> store.memory, tier_tracks |-> store.tier_tracks, done |-> FALSE,
      out |-> Pending] :
        t \in TierInputs, track \in {<<"", "trk5">>, <<"B", "trk5">>, <<"A", "trk1">>},
        store \in Stores}

AddTieredTrackToMemory ==
    /\ call.fn = "addTieredTrackToMemory" /\ ~call.done
    /\ call' = [call EXCEPT
                   !.out = addTieredTrackToMemory(call.tier, StandardAlbumKey, 60000, call.memory,
                                                  call.tier_tracks, call.name, 1, call.track_id),
                   !.done = TRUE]
    /\ UNCHANGED runVars

\* The mock artists, albums and tracks of the tests, and payloads without the
\* field that is read.
FieldCalls ==
    LET artist1 == [name |-> "Kendrick Lamar"]
        artist2 == [name |-> "Charli xcx"]
        artist5 == [name |-> ""]
        nameless == [id |-> "id1"]
    IN  {[fn |-> "get_artist_name", payload |-> artist, done |-> FALSE, out |-> Pending] :
            artist \in {artist1, artist2, artist5, nameless}}
        \cup
        {[fn |-> "get_album_artist_names", payload |-> album, done |-> FALSE, out |-> Pending] :
            album \in {[artists |-> artists] :
                          artists \in {<<artist1>>, <<artist1, artist2>>, <<artist5>>, << >>,
                                       <<artist1, nameless>>}}
                      \cup {[name |-> "Blue"]}}
        \cup
        {[fn |-> "get_track_name", payload |-> track, done |-> FALSE, out |-> Pending] :
            track \in {[name |-> "U-Love", duration_ms |-> 60000], [name |-> "", duration_ms |-> 0],
                       [duration_ms |-> 60000]}}

\* get_artist_name with its lookup of the name (lines 58-62).
call_get_artist_name(spotify_artist) ==
    IF "name" \in DOMAIN spotify_artist
    THEN Return(get_artist_name(spotify_artist))
    ELSE Raise(ReturnDataException)

\* get_album_artist_names with its lookup of the artists (lines 71-75): the
\* exception get_artist_name raises is no KeyError and passes through.
call_get_album_artist_names(spotify_album) ==
    IF "artists" \notin DOMAIN spotify_album THEN Raise(ReturnDataException)
    ELSE IF \E n \in DOMAIN spotify_album.artists :
                call_get_artist_name(spotify_album.artists[n]).raised # ""
    THEN Raise(ReturnDataException)
    ELSE Return(get_album_artist_names(spotify_album))

\* get_track_name with its lookup of the name (lines 112-116).
call_get_track_name(spotify_track) ==
    IF "name" \in DOMAIN spotify_track
    THEN Return(get_track_name(spotify_track))
    ELSE Raise(ReturnDataException)

GetArtistName ==
    /\ call.fn = "get_artist_name" /\ ~call.done
    /\ call' = [call EXCEPT !.out = call_get_artist_name(call.payload), !.done = TRUE]
    /\ UNCHANGED runVars

GetAlbumArtistNames ==
    /\ call.fn = "get_album_artist_names" /\ ~call.done
    /\ call' = [call EXCEPT !.out = call_get_album_artist_names(call.payload), !.done = TRUE]
    /\ UNCHANGED runVars

GetTrackName ==
    /\ call.fn = "get_track_name" /\ ~call.done
    /\ call' = [call EXCEPT !.out = call_get_track_name(call.payload), !.done = TRUE]
    /\ UNCHANGED runVars

(* Validation of the configs (sparse_configs_validation). A value is
   [type, int, str]: its Python type, and its value as an int or as the
   sequence of the characters of a string. *)

SparseConfigsException == "SparseConfigsException"

keys_types_and_suffixes ==
    <<[key |-> "album_length_threshold_min", type |-> "int", suffix |-> << >>],
      [key |-> "client_id", type |-> "str", suffix |-> << >>],
      [key |-> "client_secret", type |-> "str", suffix |-> << >>],
      [key |-> "genre_playlists_file_path", type |-> "str", suffix |-> <<".", "j", "s", "o", "n">>],
      [key |-> "ranked_album_genres_file_path", type |-> "str", suffix |-> <<".", "j", "s", "o", "n">>],
      [key |-> "ranker_override_file_path", type |-> "str", suffix |-> <<".", "j", "s", "o", "n">>],
      [key |-> "ranker_output_file_path", type |-> "str", suffix |-> <<".", "c", "s", "v">>],
      [key |-> "tier_1_playlist_id", type |-> "str", suffix |-> << >>],
      [key |-> "tier_2_playlist_id", type |-> "str", suffix |-> << >>],
      [key |-> "tier_3_playlist_id", type |-> "str", suffix |-> << >>],
      [key |-> "tier_3_yearly_threshold", type |-> "int", suffix |-> << >>],
      [key |-> "user", type |-> "str", suffix |-> << >>]>>

\* The values a key of the configs is given: ints, booleans, None and strings.
ConfigValues ==
    {[type |-> "int", int |-> n, str |-> << >>] : n \in {-1, 0, 20}}
        \cup {[type |-> "bool", int |-> 1, str |-> << >>],
              [type |-> "NoneType", int |-> 0, str |-> << >>]}
        \cup {[type |-> "str", int |-> 0, str |-> str] :
                 str \in {<< >>, <<"t", "e", "s", "t">>, <<"a", ".", "J", "S", "O", "N">>,
                          <<"a", ".", "c", "s", "v">>}}

\* The valid configs of the tests.
valid_configs ==
    LET test == [type |-> "str", int |-> 0, str |-> <<"t", "e", "s", "t">>]
        path(str) == [type |-> "str", int |-> 0, str |-> str]
        int(n) == [type |-> "int", int |-> n, str |-> << >>]
    IN  [user |-> test, client_id |-> test, client_secret |-> test,
         tier_3_playlist_id |-> test, tier_2_playlist_id |-> test, tier_1_playlist_id |-> test,
         ranker_override_file_path |-> path(<<"o", ".", "J", "S", "O", "N">>),
         ranker_output_file_path |-> path(<<"a", ".", "C", "S", "V">>),
         ranked_album_genres_file_path |-> path(<<"g", ".", "j", "s", "o", "n">>),
         genre_playlists_file_path |-> path(<<"p", ".", "j", "s", "o", "n">>),
         tier_3_yearly_threshold |-> int(250),
         album_length_threshold_min |-> int(20)]

\* The sets of up to MaxChanged keys that are deleted or given another value.
ChangedKeys == {keys \in SUBSET DOMAIN valid_configs : Cardinality(keys) <= MaxChanged}

\* A key that is to be deleted is given this in place of a value.
Deleted == [type |-> "deleted", int |-> 0, str |-> << >>]

\* The call of validate on the valid configs changed as values says.
ValidateCall(values) ==
    [fn |-> "validate",
     configs |-> [key \in {k \in DOMAIN valid_configs :
                              k \in DOMAIN values => values[k] # Deleted} |->
                     IF key \in DOMAIN values THEN values[key] ELSE valid_configs[key]],
     done |-> FALSE, out |-> Pending]

\* str.lower().endswith(suffix), for the letters of the two extensions.
lower_endswith(str, suffix) ==
    LET lower(c) ==
            CASE c = "J" -> "j" [] c = "S" -> "s" [] c = "O" -> "o" [] c = "N" -> "n"
              [] c = "C" -> "c" [] c = "V" -> "v" [] OTHER -> c
    IN  /\ Len(str) >= Len(suffix)
        /\ \A n \in DOMAIN suffix : lower(str[Len(str) - Len(suffix) + n]) = suffix[n]

\* Faulty variant: the suffix is compared as it is written.
check_key_case_sensitive(configs, key, expected_type, expected_suffix) ==
    IF key \notin DOMAIN configs THEN TRUE
    ELSE IF ~(configs[key].type = expected_type
                \/ (expected_type = "int" /\ configs[key].type = "bool")) THEN TRUE
    ELSE IF configs[key].type = "str" /\ configs[key].str = << >> THEN TRUE
    ELSE /\ expected_suffix # << >>
         /\ \/ Len(configs[key].str) < Len(expected_suffix)
            \/ SubSeq(configs[key].str, Len(configs[key].str) - Len(expected_suffix) + 1,
                      Len(configs[key].str)) # expected_suffix

\* check_key: TRUE when the key adds an issue. isinstance(value, int) holds of a
\* bool as well, since bool is a subclass of int.
check_key(configs, key, expected_type, expected_suffix) ==
    LET isinstance(value, type) ==
            value.type = type \/ (type = "int" /\ value.type = "bool")
    IN  IF key \notin DOMAIN configs THEN TRUE
        ELSE IF ~isinstance(configs[key], expected_type) THEN TRUE
        ELSE IF isinstance(configs[key], "str") /\ configs[key].str = << >> THEN TRUE
        ELSE expected_suffix # << >> /\ ~lower_endswith(configs[key].str, expected_suffix)

validate(configs) ==
    LET issues == {n \in DOMAIN keys_types_and_suffixes :
                      check_key(configs, keys_types_and_suffixes[n].key,
                                keys_types_and_suffixes[n].type,
                                keys_types_and_suffixes[n].suffix)}
    IN  IF issues # {} THEN Raise(SparseConfigsException)
        ELSE IF configs["tier_3_yearly_threshold"].int <= 0
                  \/ configs["album_length_threshold_min"].int <= 0
        THEN Raise(SparseConfigsException)
        ELSE Return(None)

Validate ==
    /\ call.fn = "validate" /\ ~call.done
    /\ call' = [call EXCEPT !.out = validate(call.configs), !.done = TRUE]
    /\ UNCHANGED runVars

(* The genre keywords of the sorter (AlbumSorter.get_genre_keywords). A string
   is the sequence of its characters. *)

ALL_GENRES_NAME == <<"A", "l", "l", " ", "G", "e", "n", "r", "e", "s">>

KEYWORD_SUFFIX == <<" ", "(", "w", "o", "r", "d", ")">>

\* The genre names of the configs: lists of different names of one word or of two different words.
get_genre_playlists_names ==
    LET words == {<<"p", "o", "p">>, <<"r", "o", "c", "k">>, <<"a", "r", "t">>}
        names == words \cup {pair[1] \o <<" ">> \o pair[2] :
                                pair \in {p \in words \X words : p[1] # p[2]}}
    IN  {genres \in UNION {[1..n -> names] : n \in 1..MaxGenres} :
            \A m, n \in DOMAIN genres : m # n => genres[m] # genres[n]}

\* str < str: by the code points of the first characters that differ.
StrLess(s, t) ==
    LET order == <<" ", "(", ")", "A", "G", "a", "c", "d", "e", "k", "l", "n", "o", "p", "r",
                   "s", "t", "w">>
        ord(c) == CHOOSE n \in DOMAIN order : order[n] = c
        common == {n \in 1..Len(s) : n <= Len(t) /\ \A m \in 1..n : s[m] = t[m]}
        k == Cardinality(common) + 1
    IN  IF k > Len(s) THEN k <= Len(t)
        ELSE k <= Len(t) /\ ord(s[k]) < ord(t[k])

\* sorted(list)
RECURSIVE sorted(_)
sorted(list) ==
    IF list = << >> THEN << >>
    ELSE LET least == CHOOSE n \in DOMAIN list : \A m \in DOMAIN list : ~StrLess(list[m], list[n])
         IN  <<list[least]>> \o
             sorted(SubSeq(list, 1, least - 1) \o SubSeq(list, least + 1, Len(list)))

\* str.split(' ')
RECURSIVE split(_)
split(str) ==
    IF \A n \in DOMAIN str : str[n] # " " THEN <<str>>
    ELSE LET first == CHOOSE n \in DOMAIN str :
                          str[n] = " " /\ \A m \in 1..(n - 1) : str[m] # " "
         IN  <<SubSeq(str, 1, first - 1)>> \o split(SubSeq(str, first + 1, Len(str)))

\* The two loops of lines 185-191 over the words of all genres: the count is
\* kept under the keyword, and looked for under the word.
RECURSIVE CountWords(_, _)
CountWords(words, genre_word_counts) ==
    IF words = << >> THEN Return(genre_word_counts)
    ELSE LET word == Head(words)
             keyword == word \o KEYWORD_SUFFIX
         IN  IF word \notin DOMAIN genre_word_counts
             THEN CountWords(Tail(words), Put(genre_word_counts, keyword, 1))
             ELSE IF keyword \notin DOMAIN genre_word_counts THEN Raise(KeyError)
             ELSE CountWords(Tail(words),
                             [genre_word_counts EXCEPT ![keyword] = @ + 1])

RECURSIVE Flatten(_)
Flatten(lists) == IF lists = << >> THEN << >> ELSE Head(lists) \o Flatten(Tail(lists))

get_genre_keywords(all_genres) ==
    LET counted == CountWords(Flatten([n \in DOMAIN all_genres |-> split(all_genres[n])]),
                              << >>)
    IN  IF counted.raised # "" THEN counted
        ELSE LET genre_word_counts == counted.value
                 repeated == {word \in DOMAIN genre_word_counts : genre_word_counts[word] > 1}
                 \* the keywords are appended in the order of the dict; the list is
                 \* sorted afterwards, so any order of appending gives the same list
                 appended == CHOOSE list \in [1..Cardinality(repeated) -> repeated] :
                                 \A word \in repeated : \E n \in DOMAIN list : list[n] = word
             IN  Return(<<ALL_GENRES_NAME>> \o sorted(all_genres \o appended))

GetGenreKeywords ==
    /\ call.fn = "get_genre_keywords" /\ ~call.done
    /\ call' = [call EXCEPT !.out = get_genre_keywords(call.all_genres), !.done = TRUE]
    /\ UNCHANGED runVars

\* __saveTrackData called again and again for track A of the standard album, at
\* the tiers of call.tiers one after the other, on the album as it was created.
SaveCalls ==
    LET created == CHOOSE store \in Stores :
                       store.memory[StandardAlbumKey].playlist_placements = << >>
    IN  {[fn |-> "saveTrackData", tiers |-> tiers, saved |-> 0, raised |-> "",
          memory |-> created.memory, tier_tracks |-> created.tier_tracks, done |-> FALSE] :
            tiers \in UNION {[1..n -> Tiers] : n \in 1..MaxSaves}}

SaveTrackData ==
    /\ call.fn = "saveTrackData" /\ ~call.done
    /\ LET out == saveTrackData(SpotifyTrack("trk1"), call.tiers[call.saved + 1],
                                StandardAlbumKey, call.memory, call.tier_tracks)
       IN  call' = [call EXCEPT !.saved = @ + 1,
                                !.raised = out.raised,
                                !.memory = out.memory,
                                !.tier_tracks = out.tier_tracks,
                                !.done = out.raised # "" \/ call.saved + 1 = Len(call.tiers)]
    /\ UNCHANGED runVars

(* __consolidateAlbums called on the stores the collection can leave. *)

\* The entries of the record loop, as <<track URI, tier>>: the tiers run from 3
\* down to 1, the entries of a tier come in any order.
Sightings ==
    {entries \in UNION {[1..n -> {"trk1", "trk3", "trk5", "trk6", "trk7"} \X Tiers] :
                            n \in 1..MaxSightings} :
        \A n \in 1..(Len(entries) - 1) : entries[n][2] >= entries[n + 1][2]}

\* The store after the record loop (lines 245-265) has met the entries.
RECURSIVE Recorded(_)
Recorded(entries) ==
    IF entries = << >>
    THEN [memory |-> << >>, album_keys |-> << >>, tier_tracks |-> [k \in TierKeys |-> {}]]
    ELSE
      LET before == Recorded(SubSeq(entries, 1, Len(entries) - 1))
          unwrapped_track == SpotifyTrack(entries[Len(entries)][1])
          album == unwrapped_track.album
          artists == get_album_artist_names(album)
          album_key == getAlbumKeyGivenArtists(artists, album)
          known == album_key \in DOMAIN before.memory
          new_album == getEmptyAlbum(unwrapped_track, artists, getAlbum(album.uri))
          memory1 == IF known THEN before.memory
                     ELSE Put(before.memory, album_key, new_album.value)
          saved == saveTrackData(unwrapped_track, entries[Len(entries)][2], album_key, memory1,
                                 before.tier_tracks)
      IN  [memory |-> saved.memory,
           album_keys |-> IF known THEN before.album_keys
                          ELSE Append(before.album_keys, album_key),
           tier_tracks |-> saved.tier_tracks]

ConsolidateCalls ==
    {[fn |-> "consolidateAlbums", memory |-> Recorded(entries).memory,
      album_keys |-> Recorded(entries).album_keys, done |-> FALSE, out |-> Pending] :
        entries \in Sightings}

ConsolidateStore ==
    /\ call.fn = "consolidateAlbums" /\ ~call.done
    /\ call' = [call EXCEPT !.out = Return(consolidateAlbums(call.memory, call.album_keys)),
                            !.done = TRUE]
    /\ UNCHANGED runVars


InitCalls ==
    /\ NoRun
    /\ \/ call \in RetryCalls
       \/ call \in ScoreCalls
       \/ call \in EmptyAlbumCalls
       \/ call \in ValidTierCalls
       \/ call \in TrackKeyCalls
       \/ call \in TierKeyCalls
       \/ call \in PropagationCalls
       \/ call \in FieldCalls
       \/ \E changed \in ChangedKeys :
            \E values \in [changed -> ConfigValues \cup {Deleted}] : call = ValidateCall(values)
       \/ \E all_genres \in get_genre_playlists_names :
            call = [fn |-> "get_genre_keywords", all_genres |-> all_genres, done |-> FALSE,
                    out |-> Pending]
       \/ call \in ConsolidateCalls
       \/ call \in SaveCalls

NextCalls ==
    \/ RunWithRetry
    \/ GetTrackScore
    \/ GetEmptyAlbum
    \/ IsValidTier
    \/ GetTrackKey
    \/ GetTierKey
    \/ AddTieredTrackToMemory
    \/ GetArtistName
    \/ GetAlbumArtistNames
    \/ GetTrackName
    \/ Validate
    \/ GetGenreKeywords
    \/ ConsolidateStore
    \/ SaveTrackData

SpecCalls == InitCalls /\ [][NextCalls]_vars

\* The attempts of the call at hand that return.
Succeeding == {n \in 1..max_retries : call.outcomes[n].raised = ""}

First(S) == CHOOSE n \in S : \A k \in S : n <= k

\* C21: the retry wrapper calls the remote function at most max_retries times;
\* it returns the result of the first attempt that succeeds and calls no more;
\* it has slept once after every failed attempt but the last one; and it
\* raises, the exception of the last attempt, exactly when all attempts fail.
C21_BoundedRetry ==
    call.fn = "run_with_retry" =>
        /\ call.calls <= max_retries
        /\ ~call.done => (call.sleeps = call.calls /\ call.calls < max_retries)
        /\ (call.done /\ Succeeding # {}) =>
               /\ call.out = call.outcomes[First(Succeeding)]
               /\ call.calls = First(Succeeding)
               /\ call.sleeps = call.calls - 1
        /\ (call.done /\ Succeeding = {}) =>
               /\ call.out = call.outcomes[max_retries]
               /\ call.calls = max_retries
               /\ call.sleeps = max_retries - 1
        /\ call.done => (call.out.raised # "" <=> Succeeding = {})

\* The wrapper has returned the result of the third attempt after two failed
\* attempts and two sleeps.
C21_Witness ==
    /\ call.fn = "run_with_retry" /\ call.done
    /\ Succeeding = {max_retries}
    /\ call.out.raised = "" /\ call.calls = max_retries /\ call.sleeps = max_retries - 1

\* The score table, in half points.
TableScore(d) ==
    IF d < 15000 THEN 0
    ELSE IF d < 90000 THEN 1
    ELSE IF d <= 360000 THEN 2
    ELSE 2 * ((d \div 360000) + 1)

\* C23: the track score is defined for every duration d in ms, zero included,
\* and is 0 for d < 15000, 0.5 for 15000 <= d < 90000, 1 for 90000 <= d <=
\* 360000 and floor(d / 360000) + 1 above; 0.249 min gives 0, 0.25 min 0.5,
\* 1.5 min 1, 6.0 min 1, 6.01 min 2 and 12 min 3.
C23_ScoreTable ==
    (call.fn = "get_track_score" /\ call.done /\ "duration_ms" \in DOMAIN call.spotify_track) =>
        LET d == call.spotify_track.duration_ms IN
        /\ call.out = Return(TableScore(d))
        /\ d = 14940 => call.out.value = 0
        /\ d = 15000 => call.out.value = 1
        /\ d = 90000 => call.out.value = 2
        /\ d = 360000 => call.out.value = 2
        /\ d = 360600 => call.out.value = 4
        /\ d = 720000 => call.out.value = 6

\* The score of a track of exactly 6 minutes has been computed.
C23_Witness ==
    /\ call.fn = "get_track_score" /\ call.done
    /\ "duration_ms" \in DOMAIN call.spotify_track
    /\ call.spotify_track.duration_ms = 360000
    /\ call.out = Return(2)

RECURSIVE TableScores(_)
TableScores(items) ==
    IF items = << >> THEN 0
    ELSE TableScore(Head(items).duration_ms) + TableScores(Tail(items))

\* C24: the highest possible score of an album at its creation is 3 times the
\* sum of the track scores of all tracks of the fetched album metadata, whatever
\* track of the album was found; scores 0, 0.5, 1, 2 and 0 give 10.5.
C24_HighestPossibleScore ==
    (call.fn = "getEmptyAlbum" /\ call.done) =>
        LET items == call.enriched_album.tracks.items IN
        /\ call.out.raised = ""
        /\ call.out.value.highest_possible_score = 3 * TableScores(items)
        /\ [n \in DOMAIN items |-> items[n].duration_ms] = <<13000, 60000, 274000, 482000, 0>>
               => call.out.value.highest_possible_score = 21

\* An album has been created from metadata of five tracks scoring 0, 0.5, 1, 2
\* and 0, for a found track that is none of them.
C24_Witness ==
    /\ call.fn = "getEmptyAlbum" /\ call.done
    /\ [n \in DOMAIN call.enriched_album.tracks.items |->
            call.enriched_album.tracks.items[n].duration_ms] = <<13000, 60000, 274000, 482000, 0>>
    /\ call.track.duration_ms = 370000
    /\ call.out.value.highest_possible_score = 21

\* The call has been rejected with a SparsePlaylistTierException.
Rejected == call.out = Raise(TierException)

\* C25: invalid input is rejected, never clamped: is_valid_tier is true exactly
\* of 1, 2 and 3; get_tier_key raises SparsePlaylistTierException exactly for a
\* tier outside 1..3, get_track_key exactly for that or an empty or missing
\* name; and a propagation call that is rejected leaves the placements, the tier
\* sets, the best tracks and the duration as they were.
C25_RejectedNotClamped ==
    call.fn \in {"is_valid_tier", "get_tier_key", "get_track_key", "addTieredTrackToMemory"}
        /\ call.done =>
    LET badTier == call.tier \notin {1, 2, 3} IN
    /\ call.fn = "is_valid_tier" => call.out = Return(~badTier)
    /\ call.fn = "get_tier_key" =>
          /\ Rejected <=> badTier
          /\ ~Rejected => call.out.raised = ""
    /\ call.fn = "get_track_key" =>
          /\ Rejected <=> (badTier \/ call.name \in {None, <<"">>})
          /\ ~Rejected => call.out = Return(<<call.name[1], call.tier>>)
    /\ call.fn = "addTieredTrackToMemory" =>
          /\ call.out.raised = TierException <=> (badTier \/ call.name = "")
          /\ call.out.raised \in {"", TierException}
          /\ call.out.raised = TierException =>
                /\ call.out.memory = call.memory
                /\ call.out.tier_tracks = call.tier_tracks
          /\ call.out.raised = "" =>
                \A n \in 1..call.tier :
                    <<call.name, n>> \in
                        DOMAIN call.out.memory[StandardAlbumKey].playlist_placements

\* A propagation call with tier 4 on a store that holds placements, a best track
\* and a duration has been rejected.
C25_Witness ==
    /\ call.fn = "addTieredTrackToMemory" /\ call.done
    /\ call.tier = 4 /\ call.name = "B"
    /\ call.out.raised = TierException
    /\ call.memory[StandardAlbumKey].best_tracks # {}
    /\ call.memory[StandardAlbumKey].duration_ms > 0

\* C26: an entry that lacks a field the collection reads ends the run with a
\* SparseReturnDataException.
C26_MalformedIsReturnDataException ==
    [][MalformedEntry => raised' = ReturnDataException]_vars

\* The payload of a finished helper call, and the field the helper reads in it.
HelperPayload == IF call.fn = "get_track_score" THEN call.spotify_track ELSE call.payload

HelperField ==
    CASE call.fn = "get_artist_name" -> "name"
      [] call.fn = "get_album_artist_names" -> "artists"
      [] call.fn = "get_track_score" -> "duration_ms"
      [] call.fn = "get_track_name" -> "name"

HelperCallDone ==
    /\ call.fn \in {"get_artist_name", "get_album_artist_names", "get_track_score",
                     "get_track_name"}
    /\ call.done

\* With the field present (and, for an album, a name on every artist) the
\* helper returns the value read from it.
FieldValueReturned ==
    CASE call.fn = "get_artist_name" -> call.out = Return(call.payload.name)
      [] call.fn = "get_track_name" -> call.out = Return(call.payload.name)
      [] call.fn = "get_track_score" ->
            call.out = Return(TableScore(call.spotify_track.duration_ms))
      [] call.fn = "get_album_artist_names" ->
            LET artists == call.payload.artists IN
            IF \E n \in DOMAIN artists : "name" \notin DOMAIN artists[n]
            THEN call.out.raised # ""
            ELSE /\ call.out.raised = ""
                 /\ Len(artists) = 0 => call.out.value = ""
                 /\ Len(artists) = 1 => call.out.value = artists[1].name
                 /\ Len(artists) = 2 =>
                       call.out.value = artists[1].name \o ", " \o artists[2].name

ThresholdKeys == {"tier_3_yearly_threshold", "album_length_threshold_min"}

JsonPathKeys ==
    {"ranker_override_file_path", "ranked_album_genres_file_path", "genre_playlists_file_path"}

CsvPathKeys == {"ranker_output_file_path"}

TextKeys ==
    {"user", "client_id", "client_secret", "tier_1_playlist_id", "tier_2_playlist_id",
     "tier_3_playlist_id"}

\* The last Len(endings) characters of str are, one by one, among the given ones.
EndsWithOneOf(str, endings) ==
    /\ Len(str) >= Len(endings)
    /\ \A n \in DOMAIN endings : str[Len(str) - Len(endings) + n] \in endings[n]

\* A value of the expected type int is an int or, as a bool is an int in
\* Python, a bool (with True as 1).
Acceptable(configs) ==
    /\ ThresholdKeys \cup JsonPathKeys \cup CsvPathKeys \cup TextKeys \subseteq DOMAIN configs
    /\ \A key \in ThresholdKeys : configs[key].type \in {"int", "bool"} /\ configs[key].int > 0
    /\ \A key \in JsonPathKeys \cup CsvPathKeys \cup TextKeys :
          configs[key].type = "str" /\ configs[key].str # << >>
    /\ \A key \in JsonPathKeys :
          EndsWithOneOf(configs[key].str, <<{"."}, {"j", "J"}, {"s", "S"}, {"o", "O"}, {"n", "N"}>>)
    /\ \A key \in CsvPathKeys :
          EndsWithOneOf(configs[key].str, <<{"."}, {"c", "C"}, {"s", "S"}, {"v", "V"}>>)

\* C28: validate accepts a config exactly when all twelve keys are present,
\* each value has its expected type, no string is empty, each file path ends,
\* whatever the case, with its extension (.json for the override, genres and
\* genre-playlists files, .csv for the ranker output) and both thresholds are
\* greater than 0; in every other case it raises SparseConfigsException.
C28_ValidateAcceptsExactly ==
    (call.fn = "validate" /\ call.done) =>
        /\ Cardinality(ThresholdKeys \cup JsonPathKeys \cup CsvPathKeys \cup TextKeys) = 12
        /\ IF Acceptable(call.configs) THEN call.out.raised = ""
           ELSE call.out = Raise(SparseConfigsException)

\* validate has accepted configs whose override path ends in upper case with
\* .JSON, and has been given one other value than the tests give.
C28_Witness ==
    /\ call.fn = "validate" /\ call.done
    /\ call.out.raised = ""
    /\ call.configs # valid_configs
    /\ call.configs["ranker_override_file_path"].str = <<"o", ".", "J", "S", "O", "N">>

\* The words of the genre names of the finished call, and those that occur in
\* more than one genre name.
WordsOf(genre) == Range(split(genre))

RepeatedWords ==
    {word \in UNION {WordsOf(call.all_genres[n]) : n \in DOMAIN call.all_genres} :
        \E m, n \in DOMAIN call.all_genres :
            m # n /\ word \in WordsOf(call.all_genres[m]) /\ word \in WordsOf(call.all_genres[n])}

\* C29: get_genre_keywords returns 'All Genres' followed by the sorted list of
\* every genre name and, for every word that occurs in more than one genre name,
\* the entry '<word> (word)'; a word of one genre name only gets no entry.
C29_GenreKeywords ==
    (call.fn = "get_genre_keywords" /\ call.done) =>
        /\ call.out.raised = ""
        /\ Head(call.out.value) = ALL_GENRES_NAME
        /\ Range(Tail(call.out.value)) =
              Range(call.all_genres) \cup {word \o KEYWORD_SUFFIX : word \in RepeatedWords}
        /\ Len(call.out.value) = 1 + Len(call.all_genres) + Cardinality(RepeatedWords)
        /\ \A n \in 2..(Len(call.out.value) - 1) :
              ~StrLess(call.out.value[n + 1], call.out.value[n])

\* C30: the merge pass loses no placement and no best track: every placement
\* key and every best track an album holds before the pass is held, once the
\* marked albums are deleted, by an album that is left, also when merges chain
\* and whatever the order of the store.
C30_MergePassLosesNothing ==
    (call.fn = "consolidateAlbums" /\ call.done) =>
        LET pass == MergePass(call.album_keys, 1, call.memory, {})
            left == DOMAIN call.memory \ pass.keys_to_delete
        IN  \A key \in DOMAIN call.memory :
              /\ \A placement \in DOMAIN call.memory[key].playlist_placements :
                    \E r \in left : placement \in DOMAIN pass.memory[r].playlist_placements
              /\ \A id \in call.memory[key].best_tracks :
                    \E r \in left : id \in pass.memory[r].best_tracks

\* The tiers of the save calls made so far, and the highest of them.
SavedTiers == {call.tiers[n] : n \in 1..call.saved}

\* The store after the save calls made so far, had they come in the order
\* tiers.
RECURSIVE SavedInOrder(_, _)
SavedInOrder(tiers, store) ==
    IF tiers = << >> THEN store
    ELSE LET out == saveTrackData(SpotifyTrack("trk1"), Head(tiers), StandardAlbumKey,
                                  store.memory, store.tier_tracks)
         IN  SavedInOrder(Tail(tiers), [memory |-> out.memory, tier_tracks |-> out.tier_tracks])

Reorderings ==
    {[n \in 1..call.saved |-> call.tiers[order[n]]] :
        order \in {f \in [1..call.saved -> 1..call.saved] :
                      \A m, n \in 1..call.saved : m # n => f[m] # f[n]}}

\* C31: a track may be saved any number of times and in any order of the tiers:
\* afterwards it has one placement for each tier from 1 up to the highest tier
\* it was saved at and is in the track sets of exactly those tiers, and the
\* placements, best tracks, duration and tier track sets are those every other
\* order of the same calls leaves.
C31_SaveInAnyOrder ==
    (call.fn = "saveTrackData" /\ call.saved > 0) =>
        LET album == call.memory[StandardAlbumKey]
            top == Highest(SavedTiers)
            created == CHOOSE store \in Stores :
                           store.memory[StandardAlbumKey].playlist_placements = << >>
        IN  /\ call.raised = ""
            /\ DOMAIN album.playlist_placements = {<<"A", t>> : t \in 1..top}
            /\ \A t \in Tiers : call.tier_tracks[get_tier_key(t).value] =
                                    IF t <= top THEN {"trk1"} ELSE {}
            /\ album.best_tracks = IF top = 3 THEN {"trk1"} ELSE {}
            /\ \A tiers \in Reorderings :
                  SavedInOrder(tiers, created) =
                      [memory |-> call.memory, tier_tracks |-> call.tier_tracks]

\* The track has been saved at the tiers 1, 2, 1, 1.
C31_Witness ==
    /\ call.fn = "saveTrackData" /\ call.done
    /\ call.tiers = <<1, 2, 1, 1>>
    /\ DOMAIN call.memory[StandardAlbumKey].playlist_placements = {<<"A", 1>>, <<"A", 2>>}

\* C32: a propagation call with a tier in 1..3 ends without an error after it
\* has visited the tiers tier, tier - 1, ..., 1 and no other: it writes the
\* placements and enters the track sets of exactly these tiers, never those of a
\* tier 0, also when the track was recorded at tier 1 by an earlier call.
C32_DownToTier1 ==
    (call.fn = "addTieredTrackToMemory" /\ call.done /\ call.tier \in 1..3 /\ call.name # "") =>
        LET visited == 1..call.tier
            before == call.memory[StandardAlbumKey].playlist_placements
            after == call.out.memory[StandardAlbumKey].playlist_placements
        IN  /\ call.out.raised = ""
            /\ Cardinality(visited) <= 3
            /\ DOMAIN after = DOMAIN before \cup {<<call.name, t>> : t \in visited}
            /\ DOMAIN call.out.tier_tracks = TierKeys
            /\ \A t \in Tiers :
                  call.out.tier_tracks[get_tier_key(t).value] =
                      call.tier_tracks[get_tier_key(t).value]
                          \cup (IF t \in visited THEN {call.track_id} ELSE {})

\* A propagation call at tier 2 has ended for a track that an earlier call had
\* recorded at tier 1.
C32_Witness ==
    /\ call.fn = "addTieredTrackToMemory" /\ call.done
    /\ call.tier = 2
    /\ call.track_id \in call.tier_tracks[get_tier_key(1).value]
    /\ call.out.raised = ""

\* The track IDs handed to the collector so far.
HandedIds == {id \in TrackIds : HandedTiers(id) # {}}

\* C33: until the cross-tier dedup the tier track sets are nested: the set of
\* tier 3 is within that of tier 2, that of tier 2 within that of tier 1, and
\* the set of tier 1 holds every track ID handed to the collector so far; the
\* sets are disjoint once the dedup has run.
C33_TierSetsNested ==
    /\ "executeTierTrackDiff" \notin finished =>
          /\ TierSet(3) \subseteq TierSet(2)
          /\ TierSet(2) \subseteq TierSet(1)
          /\ TierSet(1) = HandedIds
    /\ "executeTierTrackDiff" \in finished =>
          \A t, u \in Tiers : t # u => TierSet(t) \cap TierSet(u) = {}

\* During collection the three sets differ and none is empty.
C33_Witness ==
    /\ Collecting
    /\ TierSet(3) # {}
    /\ TierSet(3) # TierSet(2)
    /\ TierSet(2) # TierSet(1)

\* C34: for every album written to the report the total score is at most the
\* highest possible score, so that the rating of the sorter, total score /
\* highest possible score * 100, is at most 100, also for an album that another
\* edition was merged into or that received an override.
C34_TotalAtMostHighest ==
    output_file # PreviousReport =>
        \A n \in DOMAIN output_file.rows :
            output_file.rows[n].total_score <= output_file.rows[n].highest_score

\* The fields of an album the merge pass leaves alone.
FrameFields ==
    {"artists", "name", "year", "highest_possible_score", "duration_ms", "album_track_names"}

\* The duration collected for an album: that of each of its tracks, as often as
\* the track was handed to the collector.
CollectedDuration(key) ==
    SumOver([id \in TrackIds |->
                (handed[1][id] + handed[2][id] + handed[3][id]) * SpotifyTrack(id).duration_ms],
            HandedOf(key))

\* C35: the merge pass changes only the placements and best tracks of the
\* albums others are merged into, and the set of keys: the artists, name, year,
\* highest possible score, duration and track names of every album it leaves in
\* the store are as collected (the duration of a merged album is not added to
\* its target's), an album nothing is merged into keeps its placements and best
\* tracks, and consolidation changes no tier track set.
C35_MergeFrame ==
    [][ConsolidationStep =>
        LET pass == MergePass(album_keys, 1, memory, {}) IN
        /\ DOMAIN pass.memory = DOMAIN memory
        /\ pass.keys_to_delete \subseteq DOMAIN memory
        /\ \A key \in DOMAIN memory \ pass.keys_to_delete :
              /\ \A field \in FrameFields : pass.memory[key][field] = memory[key][field]
              /\ (\A l \in DOMAIN memory : ~Absorbs(memory, l, key)) =>
                    /\ pass.memory[key].playlist_placements = memory[key].playlist_placements
                    /\ pass.memory[key].best_tracks = memory[key].best_tracks
        /\ \A key \in DOMAIN memory' :
              /\ key \in DOMAIN memory \ pass.keys_to_delete
              /\ memory'[key].duration_ms = memory[key].duration_ms
              /\ memory'[key].album_track_names = memory[key].album_track_names
              /\ \A field \in FrameFields \ DOMAIN get_ranker_override_by_album_key(key) :
                    memory'[key][field] = memory[key][field]
        /\ tier_tracks' = tier_tracks]_vars

\* Consolidation has ended: an album with a duration of its own was merged into
\* another, which holds a best track of it and has the duration collected for
\* itself alone.
C35_Witness ==
    /\ "consolidateAlbums" \in finished
    /\ \E l \in HandedAlbums \ DOMAIN memory : \E r \in DOMAIN memory :
           /\ CollectedDuration(l) > 0
           /\ \E id \in HandedOf(l) : id \in memory[r].best_tracks
           /\ memory[r].duration_ms = CollectedDuration(r)

\* C36: an album is merged only into an album of a strictly greater highest
\* possible score, as computed at collection: every album the merge pass marks
\* has such an album to be merged into, an album gains placements or best tracks
\* only from such a smaller album, an album whose score is the greatest of the
\* store is never marked, and two albums of equal score are not merged, not even
\* when their track names are the same.
C36_StrictlyGreaterOnly ==
    (call.fn = "consolidateAlbums" /\ call.done) =>
        LET pass == MergePass(call.album_keys, 1, call.memory, {})
            score(key) == call.memory[key].highest_possible_score
        IN  /\ \A l \in pass.keys_to_delete :
                  \E r \in DOMAIN call.memory : Absorbs(call.memory, l, r) /\ score(l) < score(r)
            /\ \A r \in DOMAIN call.memory :
                  pass.memory[r] # call.memory[r] =>
                      \E l \in pass.keys_to_delete :
                          Absorbs(call.memory, l, r) /\ score(l) < score(r)
            /\ \A key \in DOMAIN call.memory :
                  (\A other \in DOMAIN call.memory : score(other) <= score(key)) =>
                      key \notin pass.keys_to_delete
            /\ \A l, r \in DOMAIN call.memory :
                  (DOMAIN call.memory = {l, r} /\ score(l) = score(r)) =>
                      /\ pass.keys_to_delete = {}
                      /\ pass.memory = call.memory

\* Consolidation was called on a store of two albums of the same score and the
\* same track names, each with placements.
C36_Witness ==
    /\ call.fn = "consolidateAlbums" /\ call.done
    /\ \E l, r \in DOMAIN call.memory :
          /\ l # r /\ DOMAIN call.memory = {l, r}
          /\ call.memory[l].highest_possible_score = call.memory[r].highest_possible_score
          /\ call.memory[l].album_track_names = call.memory[r].album_track_names
          /\ call.memory[l].playlist_placements # << >>
          /\ call.memory[r].playlist_placements # << >>

\* Two entries of the store with the same artists and the same album name.
SameArtistsAndName(mem, l, r) ==
    /\ l # r
    /\ mem[l].artists = mem[r].artists
    /\ mem[l].name = mem[r].name

\* Every track name of album l of the store is a track name of album r.
NamesWithin(mem, l, r) ==
    \A n \in DOMAIN mem[l].album_track_names :
        \E k \in DOMAIN mem[r].album_track_names :
            mem[l].album_track_names[n] = mem[r].album_track_names[k]

\* C37: up to and during the merge pass every entry of the store is filed under
\* the key made of its own artists and name, so no two distinct entries have
\* both the same artists and the same name; every album the merge pass marks is
\* merged because all its track names are track names of an album of a
\* strictly greater score, never because of an equal artists, name and year.
C37_MergesAreSubsetMerges ==
    /\ []("consolidateAlbums" \notin finished =>
            /\ \A key \in DOMAIN memory :
                  key = get_album_key(memory[key].artists, memory[key].name)
            /\ \A l, r \in DOMAIN memory : ~SameArtistsAndName(memory, l, r))
    /\ [][ConsolidationStep =>
            LET pass == MergePass(album_keys, 1, memory, {})
            IN  /\ \A l \in pass.keys_to_delete :
                      \E r \in DOMAIN memory :
                          /\ l # r
                          /\ memory[l].highest_possible_score < memory[r].highest_possible_score
                          /\ NamesWithin(memory, l, r)
                /\ \A l, r \in DOMAIN memory :
                      (Absorbs(memory, l, r) /\ l \in pass.keys_to_delete) =>
                          NamesWithin(memory, l, r)]_vars

\* The merge pass is about to run on a store that holds two albums of the same
\* artists, a standard and a deluxe edition, and marks the standard one.
C37_Witness ==
    /\ pc = "consolidateAlbums"
    /\ \E l, r \in DOMAIN memory :
          /\ l # r
          /\ memory[l].artists = memory[r].artists
          /\ memory[l].name # memory[r].name
          /\ l \in MergePass(album_keys, 1, memory, {}).keys_to_delete
          /\ NamesWithin(memory, l, r)

====
